---- MODULE Spec2Model ----
(***************************************************************************)
(* Bit-banged driver for the MT29F NAND flash (src/nand_driver.py) and the *)
(* retry loops the orchestration scripts put around it.                    *)
(*                                                                         *)
(* Every public driver method is one action.  An action computes the       *)
(* strobes the method puts on the bus, in order (`bus`), feeds them to a   *)
(* chip that decodes them, and records the outcome of the call in `last`.  *)
(*                                                                         *)
(* A byte string (bytes in the source) is represented by its length and by *)
(* its bytes at the column offsets in ProbeCols; the chip stores, for each *)
(* page, the bytes at the same offsets.                                    *)
(***************************************************************************)
EXTENDS Integers, Sequences, FiniteSets, TLC

VARIABLES
    bad_blocks,   \* MT29F8G08ADADA.bad_blocks
    mem,          \* the chip's array: page -> bytes at ProbeCols
    last,         \* the last driver call: name, arguments, outcome, strobes
    prev,         \* the driver call before `last`
    clean,        \* blocks whose last array operation was a completed erase_block
    loop,         \* the retry loop in progress around a driver call, if any
    nOps,         \* number of calls made so far
    wire,         \* the bytes strobed on the bus by concurrent callers, in order
    at,           \* for each concurrent caller, how many of its strobes are out
    wait,         \* a wait for the ready line in progress: position and counters
    pins          \* the GPIO lines, and the GPIO calls the running method has left

vars == <<bad_blocks, mem, last, prev, clean, loop, nOps, wire, at, wait, pins>>

----------------------------------------------------------------------------
(* Geometry                                                                *)

PAGE_SIZE == 2048
SPARE_SIZE == 64
PAGES_PER_BLOCK == 64
TOTAL_BLOCKS == 4096

FULL_PAGE_SIZE == PAGE_SIZE + SPARE_SIZE
TOTAL_PAGES == TOTAL_BLOCKS * PAGES_PER_BLOCK

BlockOf(page_no) == page_no \div PAGES_PER_BLOCK
OffsetOf(page_no) == page_no % PAGES_PER_BLOCK
PageAt(block_no, offset) == block_no * PAGES_PER_BLOCK + offset

----------------------------------------------------------------------------
(* Bytes and byte strings                                                  *)

RECURSIVE BitAnd(_, _)
BitAnd(a, b) ==
    IF a = 0 \/ b = 0 THEN 0
    ELSE (a % 2) * (b % 2) + 2 * BitAnd(a \div 2, b \div 2)

ShiftRight(a, n) == a \div (2 ^ n)
ShiftLeft(a, n) == a * (2 ^ n)

\* Column offsets at which the content of byte strings and pages is tracked:
\* first and last byte of the main area, first and last byte of the spare area.
ProbeCols == {0, PAGE_SIZE - 1, PAGE_SIZE, FULL_PAGE_SIZE - 1}

Absent == -1

\* b'\x..' * len
Fill(len, byte) ==
    [len |-> len, at |-> [c \in ProbeCols |-> IF c < len THEN byte ELSE Absent]]

NoData == Fill(0, 255)

\* Variant: the page filled up with 00h.
PadFF_Zero(data, size) ==
    [len |-> size,
     at |-> [c \in ProbeCols |->
                IF c < data.len THEN data.at[c]
                ELSE IF c < size THEN 0 ELSE Absent]]

\* data += b'\xFF' * (size - len(data))
PadFF(data, size) ==
    [len |-> size,
     at |-> [c \in ProbeCols |->
                IF c < data.len THEN data.at[c]
                ELSE IF c < size THEN 255 ELSE Absent]]

AllFF(data) == \A c \in ProbeCols : c < data.len => data.at[c] = 255

ErasedPage == [c \in ProbeCols |-> 255]

----------------------------------------------------------------------------
(* Bus events: one per strobed byte (or burst of data bytes)               *)

\* A burst of data bytes is one event carrying the number of bytes; the bytes
\* written by a DataIn burst are the `loaded` field of the call's outcome.
Cmd(b) == [k |-> "cmd", b |-> b]
Addr(b) == [k |-> "addr", b |-> b]
DataIn(n) == [k |-> "din", b |-> n]
DataOut(n) == [k |-> "dout", b |-> n]
StatusOut == [k |-> "status", b |-> 0]
WaitReady == [k |-> "wait", b |-> 0]
ResetPins == [k |-> "reset_pins", b |-> 0]

StrobeKinds == {"cmd", "addr", "din", "dout", "status"}

Strobes(trace) == SelectSeq(trace, LAMBDA e : e.k \in StrobeKinds)
Commands(trace) == SelectSeq(trace, LAMBDA e : e.k = "cmd")

----------------------------------------------------------------------------
(* Address cycles                                                          *)

RECURSIVE BitOr(_, _)
BitOr(a, b) ==
    IF a = 0 THEN b
    ELSE IF b = 0 THEN a
    ELSE (IF a % 2 = 1 \/ b % 2 = 1 THEN 1 ELSE 0) + 2 * BitOr(a \div 2, b \div 2)

\* row_addresses of _write_row_address / addresses[2..4] of _write_full_address
\* Variant: only one block bit packed into the first row cycle.
RowCycle3_OneBlockBit(page_no) ==
    BitOr(BitAnd(OffsetOf(page_no), 63), ShiftLeft(BitAnd(BlockOf(page_no), 1), 6))

RowCycle3(page_no) ==
    BitOr(BitAnd(OffsetOf(page_no), 63), ShiftLeft(BitAnd(BlockOf(page_no), 3), 6))

RowCycle4(page_no) == BitAnd(ShiftRight(BlockOf(page_no), 2), 255)

RowCycle5(page_no) == BitAnd(ShiftRight(BlockOf(page_no), 10), 3)

write_row_address(page_no) ==
    <<Addr(RowCycle3(page_no)), Addr(RowCycle4(page_no)), Addr(RowCycle5(page_no))>>

\* Variant: the row cycles strobed before the column cycles.
write_full_address_RowFirst(page_no, col_addr) ==
    <<Addr(RowCycle3(page_no)),
      Addr(RowCycle4(page_no)),
      Addr(RowCycle5(page_no)),
      Addr(BitAnd(col_addr, 255)),
      Addr(BitAnd(ShiftRight(col_addr, 8), 15))>>

write_full_address(page_no, col_addr) ==
    <<Addr(BitAnd(col_addr, 255)),
      Addr(BitAnd(ShiftRight(col_addr, 8), 15)),
      Addr(RowCycle3(page_no)),
      Addr(RowCycle4(page_no)),
      Addr(RowCycle5(page_no))>>

----------------------------------------------------------------------------
(* The chip: decodes the strobes of one driver call                        *)

\* Row cycles {BA7, BA6, PA5..PA0}, {BA15..BA8}, {BA17, BA16} -> linear page
DecodeRow(c3, c4, c5) ==
    [block |-> ShiftRight(c3, 6) + ShiftLeft(c4, 2) + ShiftLeft(c5, 10),
     page_in_block |-> c3 % 64]

DecodeCol(c1, c2) == c1 + ShiftLeft(c2, 8)

\* The page and column a latched address sequence selects (3 or 5 cycles).
LatchedRow(addr) ==
    LET n == Len(addr)
        r == DecodeRow(addr[n - 2], addr[n - 1], addr[n])
    IN  PageAt(r.block, r.page_in_block)

LatchedCol(addr) == IF Len(addr) >= 5 THEN DecodeCol(addr[1], addr[2]) ELSE 0

\* What the chip accepts of a response: the array operation completes when the
\* ready line rises and the status FAIL bit is clear.
Completes(env) == env.ready /\ BitAnd(env.status, 1) = 0

\* `loaded`: the bytes the call strobes into the data register, if any.
ChipIdle(m, loaded) ==
    [mem |-> m, addr |-> <<>>, queued |-> {}, row |-> -1, col |-> 0,
     buf |-> loaded, out |-> <<>>, status |-> Absent]

ChipErase(m, blocks) ==
    [p \in DOMAIN m |-> IF BlockOf(p) \in blocks THEN ErasedPage ELSE m[p]]

\* Programming only clears bits: each stored byte is ANDed with the byte loaded.
ChipProgram(m, row, col, data) ==
    IF row \notin DOMAIN m THEN m
    ELSE [m EXCEPT ![row] =
            [c \in ProbeCols |->
                IF c >= col /\ c - col < data.len /\ (c - col) \in ProbeCols
                    THEN BitAnd(m[row][c], data.at[c - col])
                    ELSE m[row][c]]]

ChipRead(m, row, col, n) ==
    [len |-> n,
     at |-> [c \in ProbeCols |->
                IF c >= n THEN Absent
                ELSE IF row \in DOMAIN m /\ (col + c) \in ProbeCols
                    THEN m[row][col + c]
                    ELSE 255]]

ChipStep(c, e, env) ==
    CASE e.k = "addr" -> [c EXCEPT !.addr = Append(c.addr, e.b)]
      [] e.k = "dout" ->
            [c EXCEPT !.out = Append(c.out, ChipRead(c.mem, c.row, c.col, e.b))]
      [] e.k = "status" -> [c EXCEPT !.status = env.status]
      [] e.k = "sample" ->
            [c EXCEPT !.out = Append(c.out, Fill(e.b, IF c.out = <<>> THEN env.float
                                                     ELSE env.float2))]
      [] e.k = "cmd" /\ e.b \in {0, 96, 128, 6} -> [c EXCEPT !.addr = <<>>]
      [] e.k = "cmd" /\ e.b \in {48, 224} /\ Len(c.addr) >= 5 ->
            [c EXCEPT !.row = LatchedRow(c.addr), !.col = LatchedCol(c.addr)]
      [] e.k = "cmd" /\ e.b = 209 /\ Len(c.addr) >= 3 ->
            [c EXCEPT !.queued = c.queued \cup {BlockOf(LatchedRow(c.addr))}]
      [] e.k = "cmd" /\ e.b = 208 /\ Len(c.addr) >= 3 ->
            [c EXCEPT !.mem = IF Completes(env)
                                THEN ChipErase(c.mem, c.queued \cup {BlockOf(LatchedRow(c.addr))})
                                ELSE c.mem,
                      !.queued = {}]
      [] e.k = "cmd" /\ e.b = 16 /\ Len(c.addr) >= 5 ->
            [c EXCEPT !.mem = IF Completes(env)
                                THEN ChipProgram(c.mem, LatchedRow(c.addr), LatchedCol(c.addr), c.buf)
                                ELSE c.mem]
      [] OTHER -> c

RECURSIVE ChipRun(_, _, _)
ChipRun(c, trace, env) ==
    IF trace = <<>> THEN c
    ELSE ChipRun(ChipStep(c, Head(trace), env), Tail(trace), env)

----------------------------------------------------------------------------
(* Driver methods.  Each yields the outcome of the call: the error raised  *)
(* ("none" when the method returns), the strobes in order, the bad-block   *)
(* table afterwards and the bytes returned.                                *)

Outcome(err, bus, bad, ret, ret2) ==
    [err |-> err, bus |-> bus, bad |-> bad, ret |-> ret, ret2 |-> ret2, loaded |-> NoData]

validate_page(page_no) == page_no >= 0 /\ page_no < TOTAL_BLOCKS * PAGES_PER_BLOCK

validate_block(block_no) == block_no >= 0 /\ block_no < TOTAL_BLOCKS

is_bad_block(bad, block_no) == block_no \in bad

\* Variant: the marked block replaces the table.
mark_bad_block_Replace(bad, block_no) == {block_no}

mark_bad_block(bad, block_no) == bad \cup {block_no}

\* check_operation_status: READ STATUS (70h), one status byte
StatusCheck == <<Cmd(112), StatusOut>>

\* Variant: bit 1 of the status byte taken for the FAIL flag.
StatusFail_Bit1(env) == BitAnd(env.status, 2) # 0

StatusFail(env) == BitAnd(env.status, 1) # 0

\* check_read_status: READ STATUS (70h), one status byte, back to read mode (00h)
ReadStatusCheck == <<Cmd(112), StatusOut, Cmd(0)>>

check_read_status(env) ==
    IF BitAnd(env.status, 1) # 0 THEN "UNCORRECTABLE_ERROR"
    ELSE IF BitAnd(env.status, 8) # 0 THEN "CORRECTED_WITH_REWRITE_RECOMMENDED"
    ELSE "SUCCESS"

\* Variant: the block number, not the page number, handed to _write_row_address.
erase_block_BlockAsPage(bad, page_no, env) ==
    IF ~validate_page(page_no) \/ ~validate_block(BlockOf(page_no))
        THEN Outcome("InvalidAddress", <<ResetPins>>, bad, NoData, NoData)
    ELSE IF is_bad_block(bad, BlockOf(page_no))
        THEN Outcome("BadBlockAccess", <<ResetPins>>, bad, NoData, NoData)
    ELSE LET sent == <<Cmd(96)>> \o write_row_address(BlockOf(page_no))
                        \o <<Cmd(208), WaitReady>>
         IN  IF ~env.ready
                THEN Outcome("Timeout", sent \o <<ResetPins>>, bad, NoData, NoData)
             ELSE IF StatusFail(env)
                THEN Outcome("OperationFailed", sent \o StatusCheck \o <<ResetPins>>,
                             mark_bad_block(bad, BlockOf(page_no)), NoData, NoData)
             ELSE Outcome("none", sent \o StatusCheck \o <<ResetPins>>, bad, NoData, NoData)

erase_block(bad, page_no, env) ==
    IF ~validate_page(page_no) \/ ~validate_block(BlockOf(page_no))
        THEN Outcome("InvalidAddress", <<ResetPins>>, bad, NoData, NoData)
    ELSE IF is_bad_block(bad, BlockOf(page_no))
        THEN Outcome("BadBlockAccess", <<ResetPins>>, bad, NoData, NoData)
    ELSE LET sent == <<Cmd(96)>> \o write_row_address(page_no) \o <<Cmd(208), WaitReady>>
         IN  IF ~env.ready
                THEN Outcome("Timeout", sent \o <<ResetPins>>, bad, NoData, NoData)
             ELSE IF StatusFail(env)
                THEN Outcome("OperationFailed", sent \o StatusCheck \o <<ResetPins>>,
                             mark_bad_block(bad, BlockOf(page_no)), NoData, NoData)
             ELSE Outcome("none", sent \o StatusCheck \o <<ResetPins>>, bad, NoData, NoData)

\* Variant: no bad-block check before the program sequence.
ProgramSequence_NoBadCheck(bad, page_no, padded, env, marks) ==
    IF ~validate_page(page_no)
        THEN Outcome("InvalidAddress", <<ResetPins>>, bad, NoData, NoData)
    ELSE LET sent == <<Cmd(128)>> \o write_full_address(page_no, 0)
                        \o <<DataIn(padded.len), Cmd(16), WaitReady>>
             r == IF ~env.ready
                    THEN Outcome("Timeout", sent \o <<ResetPins>>, bad, NoData, NoData)
                  ELSE IF StatusFail(env)
                    THEN Outcome("OperationFailed", sent \o StatusCheck \o <<ResetPins>>,
                                 IF marks THEN mark_bad_block(bad, BlockOf(page_no)) ELSE bad,
                                 NoData, NoData)
                  ELSE Outcome("none", sent \o StatusCheck \o <<ResetPins>>, bad,
                               NoData, NoData)
         IN  [r EXCEPT !.loaded = padded]

\* The part of write_page / write_full_page inside the try block.
ProgramSequence(bad, page_no, padded, env, marks) ==
    IF ~validate_page(page_no)
        THEN Outcome("InvalidAddress", <<ResetPins>>, bad, NoData, NoData)
    ELSE IF is_bad_block(bad, BlockOf(page_no))
        THEN Outcome("BadBlockAccess", <<ResetPins>>, bad, NoData, NoData)
    ELSE LET sent == <<Cmd(128)>> \o write_full_address(page_no, 0)
                        \o <<DataIn(padded.len), Cmd(16), WaitReady>>
             r == IF ~env.ready
                    THEN Outcome("Timeout", sent \o <<ResetPins>>, bad, NoData, NoData)
                  ELSE IF StatusFail(env)
                    THEN Outcome("OperationFailed", sent \o StatusCheck \o <<ResetPins>>,
                                 IF marks THEN mark_bad_block(bad, BlockOf(page_no)) ELSE bad,
                                 NoData, NoData)
                  ELSE Outcome("none", sent \o StatusCheck \o <<ResetPins>>, bad,
                               NoData, NoData)
         IN  [r EXCEPT !.loaded = padded]

write_page(bad, page_no, data, env) ==
    IF data.len > PAGE_SIZE
        THEN Outcome("PayloadTooLarge", <<>>, bad, NoData, NoData)
    ELSE ProgramSequence(bad, page_no,
                         IF data.len < PAGE_SIZE THEN PadFF(data, PAGE_SIZE) ELSE data,
                         env, TRUE)

\* Variant: the size check made inside the try block, so that the finally
\* clause resets the pins.
write_full_page_CheckInTry(bad, page_no, data, env) ==
    IF data.len > PAGE_SIZE + SPARE_SIZE
        THEN Outcome("PayloadTooLarge", <<ResetPins>>, bad, NoData, NoData)
    ELSE ProgramSequence(bad, page_no,
                         IF data.len < PAGE_SIZE + SPARE_SIZE
                            THEN PadFF(data, PAGE_SIZE + SPARE_SIZE) ELSE data,
                         env, FALSE)

write_full_page(bad, page_no, data, env) ==
    IF data.len > PAGE_SIZE + SPARE_SIZE
        THEN Outcome("PayloadTooLarge", <<>>, bad, NoData, NoData)
    ELSE ProgramSequence(bad, page_no,
                         IF data.len < PAGE_SIZE + SPARE_SIZE
                            THEN PadFF(data, PAGE_SIZE + SPARE_SIZE) ELSE data,
                         env, FALSE)

\* `out` is what the chip drives for the DataOut events of the call.
read_page(bad, page_no, length, env, out) ==
    IF ~validate_page(page_no)
        THEN Outcome("InvalidAddress", <<ResetPins>>, bad, NoData, NoData)
    ELSE IF is_bad_block(bad, BlockOf(page_no))
        THEN Outcome("BadBlockAccess", <<ResetPins>>, bad, NoData, NoData)
    ELSE LET sent == <<Cmd(0)>> \o write_full_address(page_no, 0) \o <<Cmd(48), WaitReady>>
         IN  IF ~env.ready
                THEN Outcome("Timeout", sent \o <<ResetPins>>, bad, NoData, NoData)
             ELSE IF check_read_status(env) = "UNCORRECTABLE_ERROR"
                THEN Outcome("none", sent \o ReadStatusCheck \o <<ResetPins>>, bad,
                             Fill(length, 255), NoData)
             ELSE Outcome("none",
                          sent \o ReadStatusCheck \o <<DataOut(length), ResetPins>>, bad,
                          out[1], NoData)

\* Variant: the plane taken from the lowest block bit.
PlaneBit_Bit0(block_no) == BitAnd(block_no, 1)

PlaneBit(block_no) == BitAnd(ShiftRight(block_no, 6), 1)

\* The checks of erase_block_two_plane / read_page_two_plane before the first
\* command: the error raised, "none" when the pair is accepted.
TwoPlaneCheck(page_no1, page_no2) ==
    IF ~validate_page(page_no1) \/ ~validate_page(page_no2) THEN "InvalidAddress"
    ELSE IF PlaneBit(BlockOf(page_no1)) = PlaneBit(BlockOf(page_no2)) THEN "SamePlane"
    ELSE IF OffsetOf(page_no1) # OffsetOf(page_no2) THEN "OffsetMismatch"
    ELSE "none"

\* Variant: the first plane confirmed with D0h as well.
erase_block_two_plane_ConfirmTwice(bad, page_no1, page_no2, env) ==
    IF TwoPlaneCheck(page_no1, page_no2) # "none"
        THEN Outcome(TwoPlaneCheck(page_no1, page_no2), <<ResetPins>>, bad, NoData, NoData)
    ELSE LET sent == <<Cmd(96)>> \o write_row_address(page_no1) \o <<Cmd(208)>>
                        \o <<Cmd(96)>> \o write_row_address(page_no2) \o <<Cmd(208), WaitReady>>
         IN  IF ~env.ready
                THEN Outcome("Timeout", sent \o <<Cmd(255), WaitReady, ResetPins>>, bad,
                             NoData, NoData)
             ELSE IF StatusFail(env)
                THEN Outcome("OperationFailed", sent \o StatusCheck \o <<ResetPins>>, bad,
                             NoData, NoData)
             ELSE Outcome("none", sent \o StatusCheck \o <<ResetPins>>, bad, NoData, NoData)

\* Variant: the first operand's row address sent for both planes.
erase_block_two_plane_SameRow(bad, page_no1, page_no2, env) ==
    IF TwoPlaneCheck(page_no1, page_no2) # "none"
        THEN Outcome(TwoPlaneCheck(page_no1, page_no2), <<ResetPins>>, bad, NoData, NoData)
    ELSE LET sent == <<Cmd(96)>> \o write_row_address(page_no1) \o <<Cmd(209)>>
                        \o <<Cmd(96)>> \o write_row_address(page_no1) \o <<Cmd(208), WaitReady>>
         IN  IF ~env.ready
                THEN Outcome("Timeout", sent \o <<Cmd(255), WaitReady, ResetPins>>, bad,
                             NoData, NoData)
             ELSE IF StatusFail(env)
                THEN Outcome("OperationFailed", sent \o StatusCheck \o <<ResetPins>>, bad,
                             NoData, NoData)
             ELSE Outcome("none", sent \o StatusCheck \o <<ResetPins>>, bad, NoData, NoData)

erase_block_two_plane(bad, page_no1, page_no2, env) ==
    IF TwoPlaneCheck(page_no1, page_no2) # "none"
        THEN Outcome(TwoPlaneCheck(page_no1, page_no2), <<ResetPins>>, bad, NoData, NoData)
    ELSE LET sent == <<Cmd(96)>> \o write_row_address(page_no1) \o <<Cmd(209)>>
                        \o <<Cmd(96)>> \o write_row_address(page_no2) \o <<Cmd(208), WaitReady>>
         IN  IF ~env.ready
                THEN Outcome("Timeout", sent \o <<Cmd(255), WaitReady, ResetPins>>, bad,
                             NoData, NoData)
             ELSE IF StatusFail(env)
                THEN Outcome("OperationFailed", sent \o StatusCheck \o <<ResetPins>>, bad,
                             NoData, NoData)
             ELSE Outcome("none", sent \o StatusCheck \o <<ResetPins>>, bad, NoData, NoData)

\* The reads of read_page_two_plane call read_data() without pulsing RE#: the
\* chip drives nothing and the pins are sampled as they float, at one level in
\* the first burst and at another in the second.
Sample(n) == [k |-> "sample", b |-> n]

\* Variant: the pair returned in the order it was read.
read_page_two_plane_ReadOrder(bad, page_no1, page_no2, length, env) ==
    IF TwoPlaneCheck(page_no1, page_no2) # "none"
        THEN Outcome(TwoPlaneCheck(page_no1, page_no2), <<ResetPins>>, bad, NoData, NoData)
    ELSE IF is_bad_block(bad, BlockOf(page_no1)) \/ is_bad_block(bad, BlockOf(page_no2))
        THEN Outcome("BadBlockAccess", <<ResetPins>>, bad, NoData, NoData)
    ELSE LET sent == <<Cmd(0)>> \o write_full_address(page_no1, 0)
                        \o <<Cmd(0)>> \o write_full_address(page_no2, 0)
                        \o <<Cmd(48), WaitReady>>
             uncorrectable == check_read_status(env) = "UNCORRECTABLE_ERROR"
             stream == IF uncorrectable THEN <<>> ELSE <<Sample(length)>>
             data2 == IF uncorrectable THEN Fill(length, 255) ELSE Fill(length, env.float)
             data1 == IF uncorrectable THEN Fill(length, 255) ELSE Fill(length, env.float2)
         IN  IF ~env.ready
                THEN Outcome("Timeout", sent \o <<ResetPins>>, bad, NoData, NoData)
             ELSE Outcome("none",
                          sent \o ReadStatusCheck \o stream
                               \o <<Cmd(6)>> \o write_full_address(page_no1, 0) \o <<Cmd(224)>>
                               \o ReadStatusCheck \o stream \o <<ResetPins>>,
                          bad, data2, data1)

read_page_two_plane(bad, page_no1, page_no2, length, env) ==
    IF TwoPlaneCheck(page_no1, page_no2) # "none"
        THEN Outcome(TwoPlaneCheck(page_no1, page_no2), <<ResetPins>>, bad, NoData, NoData)
    ELSE IF is_bad_block(bad, BlockOf(page_no1)) \/ is_bad_block(bad, BlockOf(page_no2))
        THEN Outcome("BadBlockAccess", <<ResetPins>>, bad, NoData, NoData)
    ELSE LET sent == <<Cmd(0)>> \o write_full_address(page_no1, 0)
                        \o <<Cmd(0)>> \o write_full_address(page_no2, 0)
                        \o <<Cmd(48), WaitReady>>
             uncorrectable == check_read_status(env) = "UNCORRECTABLE_ERROR"
             stream == IF uncorrectable THEN <<>> ELSE <<Sample(length)>>
             data2 == IF uncorrectable THEN Fill(length, 255) ELSE Fill(length, env.float)
             data1 == IF uncorrectable THEN Fill(length, 255) ELSE Fill(length, env.float2)
         IN  IF ~env.ready
                THEN Outcome("Timeout", sent \o <<ResetPins>>, bad, NoData, NoData)
             ELSE Outcome("none",
                          sent \o ReadStatusCheck \o stream
                               \o <<Cmd(6)>> \o write_full_address(page_no1, 0) \o <<Cmd(224)>>
                               \o ReadStatusCheck \o stream \o <<ResetPins>>,
                          bad, data1, data2)

\* The exception that leaves erase_block_two_plane when its try block ended
\* with error `err`: the handler formats block_no1 and block_no2 into the
\* RuntimeError it raises, and both are assigned only after the two
\* validate_page calls, so a page validate_page rejects makes the handler
\* itself raise UnboundLocalError.
TwoPlaneEraseRaised(err) ==
    IF err = "none" THEN "none"
    ELSE IF err = "InvalidAddress" THEN "UnboundLocalError"
    ELSE "RuntimeError"

----------------------------------------------------------------------------
(* Inputs                                                                  *)

\* SET FEATURES (EFh), feature address 90h, four parameter bytes, wait_ready,
\* then GET FEATURES (EEh), feature address 90h, four parameter bytes read.
FeatureSet == <<Cmd(239), Addr(144), DataIn(4), WaitReady>>
FeatureGet == <<Cmd(238), Addr(144), DataOut(4)>>

\* What enable_internal_ecc / disable_internal_ecc leave: the value returned
\* and the strobes.  `p1` is the first parameter byte the chip reads back.
FeatureOutcome(value, bus) == [value |-> value, bus |-> bus]

\* Variant: only bit 3 of P1 tested.
enable_internal_ecc_Bit3(env, p1) ==
    IF ~env.ready THEN FeatureOutcome(FALSE, FeatureSet \o <<ResetPins>>)
    ELSE FeatureOutcome(BitAnd(p1, 8) # 0, FeatureSet \o FeatureGet \o <<ResetPins>>)

enable_internal_ecc(env, p1) ==
    IF ~env.ready THEN FeatureOutcome(FALSE, FeatureSet \o <<ResetPins>>)
    ELSE FeatureOutcome(p1 = 8, FeatureSet \o FeatureGet \o <<ResetPins>>)

disable_internal_ecc(env, p1) ==
    IF ~env.ready THEN FeatureOutcome(FALSE, FeatureSet \o <<ResetPins>>)
    ELSE FeatureOutcome(p1 = 0, FeatureSet \o FeatureGet \o <<ResetPins>>)

\* scan_bad_blocks: column of the marker byte, the first byte of the spare area
BAD_BLOCK_MARKER_ADDR == 2048

\* The strobes of the scan for one block, up to the wait for the ready line.
ScanSent(block) ==
    <<Cmd(0)>> \o write_full_address(block * PAGES_PER_BLOCK, BAD_BLOCK_MARKER_ADDR)
        \o <<Cmd(48), WaitReady>>

\* The byte the chip drives for the one RE# pulse of the scan of `block`.
MarkerByte(m, block) ==
    ChipRun(ChipIdle(m, NoData), ScanSent(block) \o <<DataOut(1)>>,
            [ready |-> TRUE, status |-> 224, float |-> 255, float2 |-> 255]).out[1].at[0]

\* The body of the loop for one block: the table afterwards and the strobes.
\* wait_ready raising (block in `busy`) lands in the except clause.
ScanBlock(bad, m, block, busy) ==
    IF block \in busy
        THEN [bad |-> bad \cup {block}, bus |-> ScanSent(block) \o <<ResetPins>>]
    ELSE [bad |-> IF MarkerByte(m, block) = 0 THEN bad \cup {block} ELSE bad,
          bus |-> ScanSent(block) \o <<DataOut(1), ResetPins>>]

RECURSIVE ScanFrom(_, _, _, _, _)
ScanFrom(bad, m, order, busy, bus) ==
    IF order = <<>> THEN [bad |-> bad, bus |-> bus]
    ELSE LET one == ScanBlock(bad, m, Head(order), busy)
         IN  ScanFrom(one.bad, m, Tail(order), busy, bus \o one.bus)

\* scan_bad_blocks over the blocks in `order` (ascending); the table is emptied
\* first, and the method never raises.
scan_bad_blocks(m, order, busy) ==
    LET r == ScanFrom({}, m, order, busy, <<>>)
    IN  Outcome("none", r.bus, r.bad, NoData, NoData)

\* Variant: the start block returned without consulting the table.
find_good_block_NoSkip(bad, current_block) ==
    IF current_block < TOTAL_BLOCKS THEN current_block ELSE TOTAL_BLOCKS

\* find_good_block: the block returned, or TOTAL_BLOCKS when the loop runs out
\* and the method raises.
RECURSIVE find_good_block(_, _)
find_good_block(bad, current_block) ==
    IF current_block < TOTAL_BLOCKS
        THEN IF ~is_bad_block(bad, current_block) THEN current_block
             ELSE find_good_block(bad, current_block + 1)
    ELSE TOTAL_BLOCKS

\* Chip responses: the ready line rises in time or not, the status byte read,
\* the level undriven data pins are sampled at.
EnvOK == [ready |-> TRUE, status |-> 224, float |-> 255, float2 |-> 255]
EnvFail == [ready |-> TRUE, status |-> 225, float |-> 255, float2 |-> 255]
EnvBusy == [ready |-> FALSE, status |-> 128, float |-> 255, float2 |-> 255]
\* The undriven pins drift between the two bursts of a two-plane read.
EnvDrift == [ready |-> TRUE, status |-> 224, float |-> 255, float2 |-> 0]
Envs == {EnvOK, EnvFail}

\* Blocks 1, 2 and 7 lie in plane 0 (bit 6 clear), block 65 in plane 1.
ValidPages == {PageAt(1, 0), PageAt(1, 63), PageAt(2, 0), PageAt(65, 0)}
Pages == ValidPages \cup {TOTAL_PAGES}
PagePairs ==
    {<<PageAt(1, 0), PageAt(65, 0)>>, <<PageAt(65, 0), PageAt(2, 0)>>,
     <<PageAt(1, 0), PageAt(2, 0)>>, <<PageAt(1, 63), PageAt(65, 0)>>,
     <<PageAt(1, 0), TOTAL_PAGES>>}
ValidPairs == {pp \in PagePairs : pp[1] \in ValidPages /\ pp[2] \in ValidPages}
Blocks == {BlockOf(p) : p \in ValidPages}
Payloads == {Fill(1, 85), Fill(FULL_PAGE_SIZE, 85), Fill(FULL_PAGE_SIZE + 1, 85)}
ArrayPayloads == {Fill(1, 85), Fill(PAGE_SIZE, 170), Fill(FULL_PAGE_SIZE, 85)}
ReadLengths == {1, PAGE_SIZE, FULL_PAGE_SIZE}

\* Pages whose content the chip model tracks.
TrackedPages == ValidPages \cup {PageAt(7, 0)}

MaxOps == 2

----------------------------------------------------------------------------
(* State machine                                                           *)

\* The lists a routine hands back or keeps: none for a driver method.
NoLists ==
    [input |-> <<>>, pairs |-> <<>>, remaining |-> <<>>, success |-> <<>>,
     failed |-> <<>>, singles |-> <<>>]

\* program_nand's view of the ECC engine: ecc_state_enabled, the last toggle
\* whose read-back confirmed it, and the toggles called since.
NoEcc == [enabled |-> FALSE, confirmed |-> "none", later |-> {}]

NoCall ==
    [op |-> "none", page |-> -1, page2 |-> -1, data |-> NoData, length |-> 0,
     err |-> "none", bus |-> <<>>, ret |-> NoData, ret2 |-> NoData,
     bad_before |-> {}, mem_before |-> <<>>, arg |-> -1, value |-> -1,
     diff |-> {}, report |-> <<>>, status |-> Absent, loaded |-> NoData,
     out |-> <<>>, lists |-> NoLists, ecc |-> NoEcc]

NoLoop ==
    [kind |-> "none", page |-> -1, data |-> NoData, max |-> 0, retry |-> 0,
     calls |-> 0, sleeps |-> 0, done |-> FALSE, success |-> FALSE,
     error |-> "none", first |-> "none", all_fail |-> TRUE]

----------------------------------------------------------------------------
(* GPIO lines.  A driver method is the sequence of GPIO calls it makes.     *)

LOW == 0
HIGH == 1

\* Bytes of a data burst modelled; every byte of a burst is handled alike.
BurstBytes == 2

\* GPIO.output(self.<pin>, v)
Pin(pin, v) == [k |-> "pin", pin |-> pin, v |-> v]
\* GPIO.setup of the eight IO pins, GPIO.OUT or GPIO.IN
Setup(mode) == [k |-> "setup", pin |-> mode, v |-> 0]
\* GPIO.input(self.RB) polled by wait_ready
PollReady == [k |-> "rb", pin |-> "RB", v |-> 0]

write_data(data) == <<[k |-> "drive", pin |-> "IO", v |-> data]>>

read_data == <<[k |-> "sample", pin |-> "IO", v |-> 0]>>

set_data_pins_output == <<Setup("OUT")>>

set_data_pins_input == <<Setup("IN")>>

\* Variant: the data pins left as they are.
reset_pins_KeepMode ==
    <<Pin("CE", HIGH), Pin("RE", HIGH), Pin("WE", HIGH), Pin("CLE", LOW), Pin("ALE", LOW),
      [k |-> "park", pin |-> "IO", v |-> 255]>>

reset_pins ==
    <<Pin("CE", HIGH), Pin("RE", HIGH), Pin("WE", HIGH), Pin("CLE", LOW), Pin("ALE", LOW),
      Setup("OUT"), [k |-> "park", pin |-> "IO", v |-> 255]>>

\* Variant: the byte driven before WE# falls.
Strobe_DataFirst(byte) == write_data(byte) \o <<Pin("WE", LOW), Pin("WE", HIGH)>>

\* GPIO.output(WE, LOW); write_data(byte); GPIO.output(WE, HIGH)
Strobe(byte) == <<Pin("WE", LOW)>> \o write_data(byte) \o <<Pin("WE", HIGH)>>

\* GPIO.output(RE, LOW); read_data(); GPIO.output(RE, HIGH)
RePulse == <<Pin("RE", LOW)>> \o read_data \o <<Pin("RE", HIGH)>>

RECURSIVE Repeat(_, _)
Repeat(calls, n) == IF n = 0 THEN <<>> ELSE calls \o Repeat(calls, n - 1)

write_command(cmd) ==
    <<Pin("CE", LOW), Pin("CLE", HIGH), Pin("ALE", LOW)>> \o Strobe(cmd) \o <<Pin("CLE", LOW)>>

write_address(addr) ==
    <<Pin("CE", LOW), Pin("CLE", LOW), Pin("ALE", HIGH)>> \o Strobe(addr) \o <<Pin("ALE", LOW)>>

\* The tail of _write_full_address / _write_row_address: the cycles strobed
\* under one ALE pulse.
RECURSIVE StrobeAll(_)
StrobeAll(cycles) ==
    IF cycles = <<>> THEN <<>> ELSE Strobe(Head(cycles).b) \o StrobeAll(Tail(cycles))

AddressLatch(cycles) ==
    <<Pin("CE", LOW), Pin("CLE", LOW), Pin("ALE", HIGH)>> \o StrobeAll(cycles)
        \o <<Pin("ALE", LOW)>>

\* Variant: the status byte read without turning the data pins round.
StatusPins_NoTurn ==
    <<Pin("CE", LOW), Pin("CLE", HIGH), Pin("ALE", LOW)>> \o Strobe(112) \o <<Pin("CLE", LOW)>>
        \o RePulse \o <<Pin("CE", HIGH)>> \o set_data_pins_output

\* check_operation_status, and check_read_status up to its write_command(0x00)
StatusPins ==
    <<Pin("CE", LOW), Pin("CLE", HIGH), Pin("ALE", LOW)>> \o Strobe(112) \o <<Pin("CLE", LOW)>>
        \o set_data_pins_input \o RePulse \o <<Pin("CE", HIGH)>> \o set_data_pins_output

ReadStatusPins == StatusPins \o write_command(0)

\* The data loop of write_page / write_full_page
DataInPins ==
    set_data_pins_output \o <<Pin("CE", LOW), Pin("CLE", LOW), Pin("ALE", LOW)>>
        \o Repeat(Strobe(85), BurstBytes)

\* The four parameter bytes of GET FEATURES read
ParamsOutPins ==
    set_data_pins_input \o <<Pin("CE", LOW)>> \o Repeat(RePulse, 4)

PinOps ==
    {"erase_block", "write_page", "write_full_page", "read_page", "erase_block_two_plane",
     "read_page_two_plane", "enable_internal_ecc", "disable_internal_ecc",
     "check_ecc_status", "scan_bad_blocks", "rejected", "too_large"}

\* The GPIO calls of one call of a public method on page 0 of block 1 (and of
\* block 65), the chip answering env.  "rejected": validate_page or the
\* bad-block check raises inside the try block; "too_large": write_page or
\* write_full_page raises on the payload size, before its try block.
PinProgram(op, env) ==
    LET page_no == PageAt(1, 0)
        page_no2 == PageAt(65, 0)
        full == AddressLatch(write_full_address(page_no, 0))
        row == AddressLatch(write_row_address(page_no))
        uncorrectable == check_read_status(env) = "UNCORRECTABLE_ERROR"
        body ==
          CASE op = "erase_block" ->
                 write_command(96) \o row \o write_command(208) \o <<PollReady>>
                   \o (IF env.ready THEN StatusPins ELSE <<>>)
            [] op \in {"write_page", "write_full_page"} ->
                 write_command(128) \o full \o DataInPins \o write_command(16) \o <<PollReady>>
                   \o (IF env.ready THEN StatusPins ELSE <<>>)
            [] op = "read_page" ->
                 write_command(0) \o full \o write_command(48) \o <<PollReady>>
                   \o (IF ~env.ready THEN <<>>
                       ELSE IF uncorrectable THEN ReadStatusPins
                       ELSE ReadStatusPins \o set_data_pins_input \o <<Pin("CE", LOW)>>
                              \o Repeat(RePulse, BurstBytes) \o <<Pin("CE", HIGH)>>)
            [] op = "erase_block_two_plane" ->
                 write_command(96) \o row \o write_command(209)
                   \o write_command(96) \o AddressLatch(write_row_address(page_no2))
                   \o write_command(208) \o <<PollReady>>
                   \o (IF env.ready THEN StatusPins
                       ELSE write_command(255) \o <<PollReady>>)
            [] op = "read_page_two_plane" ->
                 write_command(0) \o full
                   \o write_command(0) \o AddressLatch(write_full_address(page_no2, 0))
                   \o write_command(48) \o <<PollReady>>
                   \o (IF ~env.ready THEN <<>>
                       ELSE ReadStatusPins
                              \o (IF uncorrectable THEN <<>>
                                  ELSE set_data_pins_input \o <<Pin("CE", LOW)>>
                                         \o Repeat(read_data, BurstBytes)
                                         \o <<Pin("CE", HIGH)>> \o set_data_pins_output)
                              \o write_command(6) \o full \o write_command(224)
                              \o ReadStatusPins
                              \o (IF uncorrectable THEN <<>>
                                  ELSE set_data_pins_input \o <<Pin("CE", LOW)>>
                                         \o Repeat(read_data, BurstBytes)
                                         \o <<Pin("CE", HIGH)>>))
            [] op = "enable_internal_ecc" ->
                 write_command(239)
                   \o <<Pin("CE", LOW), Pin("CLE", LOW), Pin("ALE", HIGH)>> \o Strobe(144)
                   \o <<Pin("ALE", LOW)>>
                   \o <<Pin("CE", LOW), Pin("CLE", LOW), Pin("ALE", LOW)>>
                   \o Strobe(8) \o Repeat(Strobe(0), 3) \o <<PollReady>>
                   \o (IF ~env.ready THEN <<>>
                       ELSE write_command(238) \o write_address(144) \o ParamsOutPins
                              \o <<Pin("CE", HIGH)>>)
            [] op = "disable_internal_ecc" ->
                 write_command(239) \o write_address(144)
                   \o <<Pin("CE", LOW), Pin("CLE", LOW), Pin("ALE", LOW)>>
                   \o set_data_pins_output \o Repeat(Strobe(0), 4) \o <<PollReady>>
                   \o (IF ~env.ready THEN <<>>
                       ELSE write_command(238) \o write_address(144) \o ParamsOutPins
                              \o <<Pin("CE", HIGH)>>)
            [] op = "check_ecc_status" ->
                 write_command(238) \o write_address(144) \o ParamsOutPins
            [] op = "scan_bad_blocks" ->
                 write_command(0)
                   \o AddressLatch(write_full_address(page_no, BAD_BLOCK_MARKER_ADDR))
                   \o write_command(48) \o <<PollReady>>
                   \o (IF ~env.ready THEN <<>>
                       ELSE set_data_pins_input \o <<Pin("CE", LOW)>> \o RePulse
                              \o <<Pin("CE", HIGH)>> \o set_data_pins_output)
            [] OTHER -> <<>>
    IN  IF op = "too_large" THEN <<>> ELSE body \o reset_pins

\* The lines as __init__ leaves them, no method running.
NoPins ==
    [ce |-> HIGH, re |-> HIGH, we |-> HIGH, cle |-> LOW, ale |-> LOW, mode |-> "OUT",
     op |-> "none", prog |-> <<>>, ev |-> PollReady, was |-> HIGH,
     driven |-> 0, taken |-> 0]

\* The lines after GPIO call e; `was` keeps the level the pin had, `driven`
\* and `taken` count the bytes driven since WE# fell and sampled since RE# fell.
PinStep(p, e) ==
    LET q == [p EXCEPT !.ev = e, !.was = HIGH]
    IN  CASE e.k = "pin" /\ e.pin = "CE" -> [q EXCEPT !.ce = e.v, !.was = p.ce]
          [] e.k = "pin" /\ e.pin = "CLE" -> [q EXCEPT !.cle = e.v, !.was = p.cle]
          [] e.k = "pin" /\ e.pin = "ALE" -> [q EXCEPT !.ale = e.v, !.was = p.ale]
          [] e.k = "pin" /\ e.pin = "WE" ->
                [q EXCEPT !.we = e.v, !.was = p.we,
                          !.driven = IF e.v = LOW /\ p.we = HIGH THEN 0 ELSE @]
          [] e.k = "pin" /\ e.pin = "RE" ->
                [q EXCEPT !.re = e.v, !.was = p.re,
                          !.taken = IF e.v = LOW /\ p.re = HIGH THEN 0 ELSE @]
          [] e.k = "setup" -> [q EXCEPT !.mode = e.pin]
          [] e.k = "drive" -> [q EXCEPT !.driven = @ + 1]
          [] e.k = "sample" -> [q EXCEPT !.taken = @ + 1]
          [] OTHER -> q

\* Two threads holding the same driver instance.
Callers == {"A", "B"}

NoWait ==
    [kind |-> "none", pc |-> "idle", nested |-> FALSE, retry_count |-> 0,
     elapsed |-> 0, sample |-> 0, seen_high |-> FALSE, err |-> "none"]

\* No concurrent caller and no wait in progress.
StepIdle ==
    /\ wire = <<>>
    /\ at = [c \in Callers |-> 0]
    /\ wait = NoWait
    /\ pins = NoPins

BlockErased(m, block_no) ==
    \A p \in DOMAIN m : BlockOf(p) = block_no => m[p] = ErasedPage

ErasedChip == [p \in TrackedPages |-> ErasedPage]
UsedChip == [p \in TrackedPages |-> [c \in ProbeCols |-> 15]]

\* After construction the bad-block table is empty; the array holds whatever
\* was on the chip.
Init ==
    /\ bad_blocks = {}
    /\ mem \in {ErasedChip, UsedChip}
    /\ last = NoCall
    /\ prev = NoCall
    /\ clean = {}
    /\ loop = NoLoop
    /\ nOps = 0
    /\ StepIdle

HasCmd(trace, b) == \E i \in 1..Len(trace) : trace[i] = Cmd(b)

\* One driver call with outcome r, the chip having run its strobes.
Call(op, page_no, page_no2, data, length, r, chip) ==
    /\ bad_blocks' = r.bad
    /\ mem' = chip.mem
    /\ prev' = last
    /\ last' = [op |-> op, page |-> page_no, page2 |-> page_no2, data |-> data,
                length |-> length, err |-> r.err, bus |-> r.bus,
                ret |-> r.ret, ret2 |-> r.ret2,
                bad_before |-> bad_blocks, mem_before |-> mem,
                arg |-> -1, value |-> -1, diff |-> {}, report |-> <<>>,
                status |-> chip.status, loaded |-> r.loaded, out |-> chip.out,
                lists |-> NoLists, ecc |-> NoEcc]
    /\ clean' =
         IF op = "erase_block" /\ r.err = "none" THEN clean \cup {BlockOf(page_no)}
         ELSE IF op = "erase_block_two_plane" /\ HasCmd(r.bus, 208) /\ r.err # "none"
            THEN clean \ {BlockOf(page_no), BlockOf(page_no2)}
         ELSE IF HasCmd(r.bus, 208) \/ HasCmd(r.bus, 16) THEN clean \ {BlockOf(page_no)}
         ELSE clean

MarkBadBlock(block_no) ==
    /\ bad_blocks' = mark_bad_block(bad_blocks, block_no)
    /\ prev' = last
    /\ last' = [NoCall EXCEPT !.op = "mark_bad_block", !.page = PageAt(block_no, 0),
                              !.bad_before = bad_blocks, !.mem_before = mem]
    /\ UNCHANGED <<mem, clean>>

EraseBlock(page_no, env) ==
    LET r == erase_block(bad_blocks, page_no, env)
    IN  Call("erase_block", page_no, -1, NoData, 0, r, ChipRun(ChipIdle(mem, r.loaded), r.bus, env))

WritePage(page_no, data, env) ==
    LET r == write_page(bad_blocks, page_no, data, env)
    IN  Call("write_page", page_no, -1, data, 0, r, ChipRun(ChipIdle(mem, r.loaded), r.bus, env))

WriteFullPage(page_no, data, env) ==
    LET r == write_full_page(bad_blocks, page_no, data, env)
    IN  Call("write_full_page", page_no, -1, data, 0, r, ChipRun(ChipIdle(mem, r.loaded), r.bus, env))

ReadPage(page_no, length, env) ==
    LET sent == read_page(bad_blocks, page_no, length, env, <<NoData>>).bus
        chip == ChipRun(ChipIdle(mem, NoData), sent, env)
        r == read_page(bad_blocks, page_no, length, env, chip.out \o <<NoData>>)
    IN  Call("read_page", page_no, -1, NoData, length, r, chip)

EraseBlockTwoPlane(page_no1, page_no2, env) ==
    LET r == erase_block_two_plane(bad_blocks, page_no1, page_no2, env)
    IN  Call("erase_block_two_plane", page_no1, page_no2, NoData, 0, r,
             ChipRun(ChipIdle(mem, r.loaded), r.bus, env))

ReadPageTwoPlane(page_no1, page_no2, length, env) ==
    LET r == read_page_two_plane(bad_blocks, page_no1, page_no2, length, env)
    IN  Call("read_page_two_plane", page_no1, page_no2, NoData, length, r,
             ChipRun(ChipIdle(mem, r.loaded), r.bus, env))

\* A call made directly by a caller, outside any retry loop.
Direct ==
    /\ nOps < MaxOps
    /\ nOps' = nOps + 1
    /\ loop.kind = "none" \/ loop.done
    /\ UNCHANGED <<loop, wire, at, wait, pins>>

DoMarkBadBlock(blocks) == \E b \in blocks : Direct /\ MarkBadBlock(b)

DoEraseBlock(pages) == \E p \in pages, env \in Envs : Direct /\ EraseBlock(p, env)

DoWritePage(pages, payloads) ==
    \E p \in pages, d \in payloads, env \in Envs : Direct /\ WritePage(p, d, env)

DoWriteFullPage(pages, payloads) ==
    \E p \in pages, d \in payloads, env \in Envs : Direct /\ WriteFullPage(p, d, env)

DoReadPage(pages, lengths) ==
    \E p \in pages, n \in lengths, env \in Envs : Direct /\ ReadPage(p, n, env)

DoEraseBlockTwoPlane(pairs) ==
    \E pp \in pairs, env \in Envs : Direct /\ EraseBlockTwoPlane(pp[1], pp[2], env)

DoReadPageTwoPlane(pairs) ==
    \E pp \in pairs, env \in Envs \cup {EnvDrift} :
        Direct /\ ReadPageTwoPlane(pp[1], pp[2], PAGE_SIZE, env)

\* Calls with any argument, valid or not.
Next ==
    \/ DoMarkBadBlock(Blocks)
    \/ DoEraseBlock(Pages)
    \/ DoWritePage(Pages, Payloads)
    \/ DoWriteFullPage(Pages, Payloads)
    \/ DoReadPage(Pages, {PAGE_SIZE})
    \/ DoEraseBlockTwoPlane(PagePairs)
    \/ DoReadPageTwoPlane(PagePairs)

\* Calls on valid pages with payloads of every accepted length.
NextArray ==
    \/ DoEraseBlock(ValidPages)
    \/ DoWritePage(ValidPages, ArrayPayloads)
    \/ DoWriteFullPage(ValidPages, ArrayPayloads)
    \/ DoReadPage(ValidPages, ReadLengths)
    \/ DoEraseBlockTwoPlane(ValidPairs)

----------------------------------------------------------------------------
(* Retry loops of the orchestration scripts                                *)

MAX_RETRIES == 5

RetryPages == {PageAt(7, 0), TOTAL_PAGES}
RetryBlockPages == {PageAt(7, 0), PageAt(1, 0)}
RetryPayloads == {Fill(1, 85), Fill(FULL_PAGE_SIZE + 1, 85)}
RetryEnvs == {EnvOK, EnvFail, EnvBusy}

\* The statements before `for retry in range(MAX_RETRIES)`.
LoopEnter(kind, page_no, data, max) ==
    /\ nOps < MaxOps
    /\ nOps' = nOps + 1
    /\ loop.kind = "none" \/ loop.done
    /\ loop' = [NoLoop EXCEPT !.kind = kind, !.page = page_no, !.data = data, !.max = max]
    /\ UNCHANGED <<bad_blocks, mem, last, prev, clean, wire, at, wait, pins>>

\* Variant: the except clause of the last retry marks the block in every loop.
LoopIteration_AlwaysMarks(kind, op, r, env, marks) ==
    LET failed == r.err # "none"
        last_retry == loop.retry = loop.max - 1
        bad == IF failed /\ last_retry
                  THEN mark_bad_block(r.bad, BlockOf(loop.page)) ELSE r.bad
    IN  /\ loop.kind = kind
        /\ ~loop.done
        /\ Call(op, loop.page, -1, loop.data, 0, [r EXCEPT !.bad = bad],
                ChipRun(ChipIdle(mem, r.loaded), r.bus, env))
        /\ loop' = [loop EXCEPT
                      !.calls = @ + 1,
                      !.retry = IF failed /\ ~last_retry THEN @ + 1 ELSE @,
                      !.sleeps = IF failed /\ ~last_retry THEN @ + 1 ELSE @,
                      !.done = ~failed \/ last_retry,
                      !.success = ~failed,
                      !.error = r.err,
                      !.first = IF loop.calls = 0 THEN r.err ELSE @,
                      !.all_fail = @ /\ env = EnvFail]
        /\ UNCHANGED <<nOps, wire, at, wait, pins>>

\* One iteration of the loop: the call made in the try block had outcome r for
\* chip response env; `marks` tells whether the except clause of the last
\* retry calls mark_bad_block.
LoopIteration(kind, op, r, env, marks) ==
    LET failed == r.err # "none"
        last_retry == loop.retry = loop.max - 1
        bad == IF failed /\ last_retry /\ marks
                  THEN mark_bad_block(r.bad, BlockOf(loop.page)) ELSE r.bad
    IN  /\ loop.kind = kind
        /\ ~loop.done
        /\ Call(op, loop.page, -1, loop.data, 0, [r EXCEPT !.bad = bad],
                ChipRun(ChipIdle(mem, r.loaded), r.bus, env))
        /\ loop' = [loop EXCEPT
                      !.calls = @ + 1,
                      !.retry = IF failed /\ ~last_retry THEN @ + 1 ELSE @,
                      !.sleeps = IF failed /\ ~last_retry THEN @ + 1 ELSE @,
                      !.done = ~failed \/ last_retry,
                      !.success = ~failed,
                      !.error = r.err,
                      !.first = IF loop.calls = 0 THEN r.err ELSE @,
                      !.all_fail = @ /\ env = EnvFail]
        /\ UNCHANGED <<nOps, wire, at, wait, pins>>

\* erase_blocks.py, erase_and_verify_blocks: the erase loop of step 1.  The
\* script empties the table before the first block and visits each block of
\* the device once, so the block is valid and not in the table on entry.
EraseBlocksEnter ==
    \E p \in RetryBlockPages :
        /\ ~is_bad_block(bad_blocks, BlockOf(p))
        /\ LoopEnter("erase_blocks", p, NoData, MAX_RETRIES)

EraseBlocksRetry ==
    \E env \in RetryEnvs :
        LoopIteration("erase_blocks", "erase_block",
                      erase_block(bad_blocks, loop.page, env), env, FALSE)

\* check_erase_blocks.py, erase_and_verify_blocks: blocks marked bad are skipped
CheckEraseEnter ==
    \E p \in RetryBlockPages :
        /\ ~is_bad_block(bad_blocks, BlockOf(p))
        /\ LoopEnter("check_erase_blocks", p, NoData, MAX_RETRIES)

CheckEraseRetry ==
    \E env \in RetryEnvs :
        LoopIteration("check_erase_blocks", "erase_block",
                      erase_block(bad_blocks, loop.page, env), env, TRUE)

\* nand2_program.py, program_page_only
ProgramPageOnlyEnter ==
    \E p \in RetryPages, d \in RetryPayloads :
        LoopEnter("program_page_only", p, d, MAX_RETRIES)

ProgramPageOnlyRetry ==
    \E env \in RetryEnvs :
        LoopIteration("program_page_only", "write_full_page",
                      write_full_page(bad_blocks, loop.page, loop.data, env), env, FALSE)

NextRetry ==
    \/ DoMarkBadBlock({BlockOf(p) : p \in RetryPages \cap TrackedPages})
    \/ EraseBlocksEnter
    \/ EraseBlocksRetry
    \/ CheckEraseEnter
    \/ CheckEraseRetry
    \/ ProgramPageOnlyEnter
    \/ ProgramPageOnlyRetry

----------------------------------------------------------------------------
(* Address codec over the whole address space                              *)

\* A caller hands some page to _write_row_address or _write_full_address.
InitCodec ==
    /\ bad_blocks = {}
    /\ mem = ErasedChip
    /\ last \in {[NoCall EXCEPT !.page = p] : p \in 0..(TOTAL_PAGES - 1)}
    /\ prev = NoCall
    /\ clean = {}
    /\ loop = NoLoop
    /\ nOps = 0
    /\ StepIdle

WriteRowAddress ==
    /\ last.op = "none"
    /\ last' = [last EXCEPT !.op = "_write_row_address", !.bus = write_row_address(last.page)]
    /\ UNCHANGED <<bad_blocks, mem, prev, clean, loop, nOps, wire, at, wait, pins>>

WriteFullAddress ==
    /\ last.op = "none"
    /\ \E col \in {0, PAGE_SIZE} :
          last' = [last EXCEPT !.op = "_write_full_address", !.length = col,
                               !.bus = write_full_address(last.page, col)]
    /\ UNCHANGED <<bad_blocks, mem, prev, clean, loop, nOps, wire, at, wait, pins>>

NextCodec == WriteRowAddress \/ WriteFullAddress

----------------------------------------------------------------------------
(* Bad-block table: scan, mark, search                                     *)

\* The blocks the scan is followed through, in the order of the loop; every
\* other block of the device is erased and answers in time.
ScanOrder == <<1, 2, 7, 65>>

\* Block 2 carries the factory marker 00h on its first page; block 1 carries a
\* marker on its last page only.
MarkedChip ==
    [p \in TrackedPages |->
        IF p \in {PageAt(2, 0), PageAt(1, 63)}
            THEN [c \in ProbeCols |-> IF c = PAGE_SIZE THEN 0 ELSE 255]
            ELSE ErasedPage]

MarkBlocks == {1, TOTAL_BLOCKS - 2, TOTAL_BLOCKS - 1}
StartBlocks == {0, 1, TOTAL_BLOCKS - 2, TOTAL_BLOCKS - 1, TOTAL_BLOCKS}

InitScan ==
    /\ bad_blocks = {}
    /\ mem \in {ErasedChip, UsedChip, MarkedChip}
    /\ last = NoCall
    /\ prev = NoCall
    /\ clean = {}
    /\ loop = NoLoop
    /\ nOps = 0
    /\ StepIdle

ScanBadBlocks(busy) ==
    LET r == scan_bad_blocks(mem, ScanOrder, busy)
    IN  Call("scan_bad_blocks", -1, -1, NoData, 0, r, ChipIdle(mem, NoData))

FindGoodBlock(start_block) ==
    LET found == find_good_block(bad_blocks, start_block)
    IN  /\ prev' = last
        /\ last' = [NoCall EXCEPT !.op = "find_good_block", !.arg = start_block,
                                  !.value = IF found < TOTAL_BLOCKS THEN found ELSE -1,
                                  !.err = IF found < TOTAL_BLOCKS THEN "none" ELSE "NotFound",
                                  !.bad_before = bad_blocks, !.mem_before = mem]
        /\ UNCHANGED <<bad_blocks, mem, clean>>

DoScanBadBlocks ==
    \E busy \in SUBSET {ScanOrder[i] : i \in 1..Len(ScanOrder)} :
        Direct /\ ScanBadBlocks(busy)

DoFindGoodBlock == \E b \in StartBlocks : Direct /\ FindGoodBlock(b)

\* get_two_plane_pairs: the i-th block of plane 0 goes with the i-th block of
\* plane 1, so block b with bit 6 clear is paired with b + 64.  The erase-all
\* routine is followed through these pairs; both planes have the same number
\* of blocks, so no single block remains.
ErasePairs == <<<<1, 65>>, <<2, 66>>>>

ErasedBlocks == UNION {{ErasePairs[i][1], ErasePairs[i][2]} : i \in 1..Len(ErasePairs)}

\* A local variable: x is computed once and F applied to its value.
With(x, F(_)) == CHOOSE y \in {F(v) : v \in {x}} : TRUE

\* The chip's answer to an erase that covers the given blocks: `how` when one
\* of them is among the failing blocks.
EraseEnv(blocks, failing, how) == IF blocks \cap failing = {} THEN EnvOK ELSE how

\* The fallback of one pair: erase_block on each block in turn; a block whose
\* erase returns goes to successful_blocks_erase, one whose erase raises to
\* failed_blocks_erase.  `singles` lists the blocks erase_block was called on.
RECURSIVE EraseSingles(_, _, _, _)
EraseSingles(acc, blocks, failing, how) ==
    IF blocks = <<>> THEN acc
    ELSE LET b   == Head(blocks)
             env == EraseEnv({b}, failing, how)
             r   == erase_block(acc.bad, PageAt(b, 0), env)
             c   == ChipRun(ChipIdle(acc.mem, r.loaded), r.bus, env)
         IN  With([acc EXCEPT
                      !.bad     = r.bad,
                      !.mem     = c.mem,
                      !.bus     = acc.bus \o r.bus,
                      !.singles = Append(acc.singles, b),
                      !.success = IF r.err = "none" THEN Append(acc.success, b)
                                  ELSE acc.success,
                      !.failed  = IF r.err = "none" THEN acc.failed
                                  ELSE Append(acc.failed, b)],
                  LAMBDA next : EraseSingles(next, Tail(blocks), failing, how))

\* The loop over the pairs: erase_block_two_plane, and on any exception the
\* two single erases.  `raised` lists the pairs whose two-plane erase raised.
RECURSIVE ErasePairsFrom(_, _, _, _)
ErasePairsFrom(acc, pairs, failing, how) ==
    IF pairs = <<>> THEN acc
    ELSE LET pair == Head(pairs)
             env  == EraseEnv({pair[1], pair[2]}, failing, how)
             r    == erase_block_two_plane(acc.bad, PageAt(pair[1], 0), PageAt(pair[2], 0), env)
             c    == ChipRun(ChipIdle(acc.mem, r.loaded), r.bus, env)
             two  == [acc EXCEPT !.bad = r.bad, !.mem = c.mem, !.bus = acc.bus \o r.bus]
         IN  With(IF r.err = "none"
                     THEN [two EXCEPT !.success = acc.success \o pair]
                     ELSE EraseSingles([two EXCEPT !.raised = Append(acc.raised, pair)],
                                       pair, failing, how),
                  LAMBDA next : ErasePairsFrom(next, Tail(pairs), failing, how))

\* The state of the routine before its first pair.
EraseStart(m) ==
    [bad |-> {}, mem |-> m, bus |-> <<>>, success |-> <<>>, failed |-> <<>>,
     singles |-> <<>>, raised |-> <<>>]

RECURSIVE MarkAll(_, _)
MarkAll(bad, blocks) ==
    IF blocks = <<>> THEN bad ELSE MarkAll(mark_bad_block(bad, Head(blocks)), Tail(blocks))

\* Variant: the failed blocks are not marked at the end.
erase_all_blocks_fast_NoMark(bad, m, failing, how) ==
    ErasePairsFrom(EraseStart(m), ErasePairs, failing, how)

\* erase_all_blocks_fast: the table is emptied, every pair is erased, and the
\* blocks whose erase failed are marked at the end.
erase_all_blocks_fast(bad, m, failing, how) ==
    With(ErasePairsFrom(EraseStart(m), ErasePairs, failing, how),
         LAMBDA run : [run EXCEPT !.bad = MarkAll(run.bad, run.failed)])

\* One run of the routine: last.diff is the set of blocks whose erase failed,
\* last.value 1 when the routine returns True, last.lists the routine's lists.
EraseAllBlocksFast(failing, how) ==
    LET run == erase_all_blocks_fast(bad_blocks, mem, failing, how)
        failed == {run.failed[i] : i \in 1..Len(run.failed)}
    IN  /\ bad_blocks' = run.bad
        /\ mem' = run.mem
        /\ prev' = last
        /\ last' = [NoCall EXCEPT !.op = "erase_all_blocks_fast", !.bus = run.bus,
                                  !.diff = failed,
                                  !.value = IF Len(run.failed) = 0 THEN 1 ELSE 0,
                                  !.lists = [NoLists EXCEPT !.success = run.success,
                                                            !.failed = run.failed,
                                                            !.singles = run.singles,
                                                            !.pairs = run.raised],
                                  !.bad_before = bad_blocks, !.mem_before = mem]
        /\ clean' = (clean \ ErasedBlocks) \cup (ErasedBlocks \ failed)

\* Any set of blocks may fail their erase with status FAIL; a single block
\* may also keep the ready line low.
DoEraseAllBlocksFast ==
    \E failing \in SUBSET ErasedBlocks :
        \E how \in IF Cardinality(failing) = 1 THEN {EnvFail, EnvBusy} ELSE {EnvFail} :
            Direct /\ EraseAllBlocksFast(failing, how)

NextScan ==
    \/ DoScanBadBlocks
    \/ DoMarkBadBlock(MarkBlocks)
    \/ DoFindGoodBlock

SpecScan == InitScan /\ [][NextScan]_vars

\* The routines that rebuild the table, among calls that add to it.
NextRebuild ==
    \/ DoEraseAllBlocksFast
    \/ Direct /\ ScanBadBlocks({})
    \/ DoMarkBadBlock(MarkBlocks)
    \/ DoEraseBlock({PageAt(1, 0), PageAt(2, 0)})

SpecRebuild == Init /\ [][NextRebuild]_vars

----------------------------------------------------------------------------
(* Pairing of blocks for two-plane operations                              *)

InPlane0(block) == PlaneBit(block) = 0
InPlane1(block) == PlaneBit(block) = 1

\* range(total_blocks)
BlockRange(total_blocks) == [i \in 1..total_blocks |-> i - 1]

RECURSIVE InsertSorted(_, _)
InsertSorted(b, list) ==
    IF list = <<>> THEN <<b>>
    ELSE IF b <= Head(list) THEN <<b>> \o list
    ELSE <<Head(list)>> \o InsertSorted(b, Tail(list))

RECURSIVE sorted(_)
sorted(list) == IF list = <<>> THEN <<>> ELSE InsertSorted(Head(list), sorted(Tail(list)))

\* The pairs of equal index of the two planes, and what is left of the longer.
PairUp(plane0_blocks, plane1_blocks) ==
    LET min_len == IF Len(plane0_blocks) < Len(plane1_blocks)
                      THEN Len(plane0_blocks) ELSE Len(plane1_blocks)
    IN  [pairs     |-> [i \in 1..min_len |-> <<plane0_blocks[i], plane1_blocks[i]>>],
         remaining |-> SubSeq(plane0_blocks, min_len + 1, Len(plane0_blocks))
                          \o SubSeq(plane1_blocks, min_len + 1, Len(plane1_blocks))]

get_two_plane_pairs(total_blocks) ==
    PairUp(SelectSeq(BlockRange(total_blocks), InPlane0),
           SelectSeq(BlockRange(total_blocks), InPlane1))

\* Variant: the blocks left over in plane 1 are dropped.
get_two_plane_pairs_from_list_DropRest(block_list) ==
    LET r == PairUp(sorted(SelectSeq(block_list, InPlane0)),
                    sorted(SelectSeq(block_list, InPlane1)))
    IN  [r EXCEPT !.remaining = SelectSeq(r.remaining, InPlane0)]

get_two_plane_pairs_from_list(block_list) ==
    PairUp(sorted(SelectSeq(block_list, InPlane0)),
           sorted(SelectSeq(block_list, InPlane1)))

\* Device sizes handed to get_two_plane_pairs: empty, one plane only, planes
\* of unequal and of equal size.
TotalsTried == {0, 1, 64, 65, 100, 128, 130, 192, 200, 256}

\* Blocks of the lists handed to get_two_plane_pairs_from_list, of both planes;
\* a list may name a block twice and in any order.
MaxListLen == 3
ListBlocks == {0, 1, 64, 65, 128, 192}
ListsTried == UNION {[1..n -> ListBlocks] : n \in 0..MaxListLen}

\* One call: last.lists holds the input, the pairs and the remaining blocks.
PairsCall(op, input, r) ==
    /\ last.op = "none"
    /\ last' = [NoCall EXCEPT !.op = op,
                              !.lists = [NoLists EXCEPT !.input = input, !.pairs = r.pairs,
                                                        !.remaining = r.remaining]]
    /\ UNCHANGED <<bad_blocks, mem, prev, clean, loop, nOps, wire, at, wait, pins>>

GetTwoPlanePairs ==
    \E n \in TotalsTried : PairsCall("get_two_plane_pairs", BlockRange(n), get_two_plane_pairs(n))

GetTwoPlanePairsFromList ==
    \E list \in ListsTried :
        PairsCall("get_two_plane_pairs_from_list", list, get_two_plane_pairs_from_list(list))

NextPairs == GetTwoPlanePairs \/ GetTwoPlanePairsFromList

SpecPairs == Init /\ [][NextPairs]_vars

----------------------------------------------------------------------------
(* Erase of the whole device followed by the "full" verification           *)

\* A block whose erase reported success although a cell did not clear: byte 0
\* of its first page reads 00h.
StuckCells(m, stuck) ==
    [p \in DOMAIN m |->
        IF BlockOf(p) \in stuck /\ OffsetOf(p) = 0 THEN [m[p] EXCEPT ![0] = 0] ELSE m[p]]

\* The page offsets the loops over range(PAGES_PER_BLOCK) are followed through:
\* the first and the last.
VerifyOffsets == <<0, PAGES_PER_BLOCK - 1>>

\* The page loop of one pair: read_page_two_plane on the pages of equal offset;
\* the first block whose data is not all FFh is appended to
\* data_corruption_blocks and the loop over the pages of the pair is left.  An
\* exception of the read leaves the whole routine.
RECURSIVE VerifyPairPages(_, _, _, _)
VerifyPairPages(acc, pair, offsets, env) ==
    IF offsets = <<>> THEN acc
    ELSE LET r == read_page_two_plane(acc.bad, PageAt(pair[1], Head(offsets)),
                                      PageAt(pair[2], Head(offsets)), PAGE_SIZE, env)
         IN  IF r.err # "none" THEN [acc EXCEPT !.aborted = TRUE]
             ELSE IF ~AllFF(r.ret) THEN [acc EXCEPT !.corrupt = Append(@, pair[1])]
             ELSE IF ~AllFF(r.ret2) THEN [acc EXCEPT !.corrupt = Append(@, pair[2])]
             ELSE VerifyPairPages(acc, pair, Tail(offsets), env)

RECURSIVE VerifyPairs(_, _, _)
VerifyPairs(acc, pairs, env) ==
    IF pairs = <<>> \/ acc.aborted THEN acc
    ELSE With(VerifyPairPages(acc, Head(pairs), VerifyOffsets, env),
              LAMBDA next : VerifyPairs(next, Tail(pairs), env))

\* verify_block_initialization(block, "full"): success when read_page returns
\* FFh for every byte of every page and raises nothing.
verify_block_initialization(bad, m, block_no, env) ==
    \A i \in 1..Len(VerifyOffsets) :
        LET page_no == PageAt(block_no, VerifyOffsets[i])
            sent == read_page(bad, page_no, PAGE_SIZE, env, <<NoData>>).bus
            chip == ChipRun(ChipIdle(m, NoData), sent, env)
            r    == read_page(bad, page_no, PAGE_SIZE, env, chip.out \o <<NoData>>)
        IN  r.err = "none" /\ AllFF(r.ret)

RECURSIVE VerifySingles(_, _, _)
VerifySingles(acc, blocks, env) ==
    IF blocks = <<>> \/ acc.aborted THEN acc
    ELSE With(IF verify_block_initialization(acc.bad, acc.mem, Head(blocks), env) THEN acc
              ELSE [acc EXCEPT !.corrupt = Append(@, Head(blocks))],
              LAMBDA next : VerifySingles(next, Tail(blocks), env))

\* erase_and_verify_blocks_two_plane(nand, "full"): the table is emptied, the
\* pairs are erased as in erase_all_blocks_fast, the failed blocks are marked,
\* the erased blocks are read back in pairs and singly, and the blocks found
\* corrupt are marked.  last.bus keeps the strobes of the erase phase.
erase_and_verify_blocks_two_plane(m, failing, how, stuck, env) ==
    With(ErasePairsFrom(EraseStart(m), ErasePairs, failing, how),
         LAMBDA run :
             LET erased == {run.success[i] : i \in 1..Len(run.success)}
                 start  == [bad |-> MarkAll(run.bad, run.failed),
                            mem |-> StuckCells(run.mem, stuck \cap erased),
                            corrupt |-> <<>>, aborted |-> FALSE]
                 verify == get_two_plane_pairs_from_list(run.success)
             IN  With(start,
                      LAMBDA from :
                          With(VerifySingles(VerifyPairs(from, verify.pairs, env),
                                             verify.remaining, env),
                               LAMBDA checked :
                                   [bad |-> IF checked.aborted THEN checked.bad
                                            ELSE MarkAll(checked.bad, checked.corrupt),
                                    mem |-> checked.mem, bus |-> run.bus,
                                    success |-> run.success, failed |-> run.failed,
                                    corrupt |-> checked.corrupt,
                                    pairs |-> verify.pairs, remaining |-> verify.remaining])))

EraseAndVerifyBlocksTwoPlane ==
    \E failing \in SUBSET ErasedBlocks, stuck \in SUBSET ErasedBlocks, env \in {EnvOK, EnvDrift} :
        \E how \in IF Cardinality(failing) = 1 THEN {EnvFail, EnvBusy} ELSE {EnvFail} :
            LET run == erase_and_verify_blocks_two_plane(mem, failing, how, stuck, env)
            IN  /\ last.op = "none"
                /\ bad_blocks' = run.bad
                /\ mem' = run.mem
                /\ prev' = last
                /\ last' = [NoCall EXCEPT
                               !.op = "erase_and_verify_blocks_two_plane", !.bus = run.bus,
                               !.diff = {run.corrupt[i] : i \in 1..Len(run.corrupt)},
                               !.lists = [NoLists EXCEPT !.success = run.success,
                                                         !.failed = run.failed,
                                                         !.pairs = run.pairs,
                                                         !.remaining = run.remaining],
                               !.bad_before = bad_blocks, !.mem_before = mem]
                /\ clean' = (clean \ ErasedBlocks)
                                \cup ({run.success[i] : i \in 1..Len(run.success)} \ stuck)
                /\ UNCHANGED <<loop, nOps, wire, at, wait, pins>>

NextEraseVerify == EraseAndVerifyBlocksTwoPlane

SpecEraseVerify == Init /\ [][NextEraseVerify]_vars

----------------------------------------------------------------------------
(* Internal ECC switch                                                     *)

\* Read-back values of P1: ECC off, ECC on, and each with another bit set.
P1Values == {0, 8, 1, 9}

\* One call of enable_internal_ecc / disable_internal_ecc: last.arg is the P1
\* byte the chip holds, last.value 1 for True and 0 for False.
FeatureCall(op, r, p1) ==
    /\ prev' = last
    /\ last' = [NoCall EXCEPT !.op = op, !.arg = p1, !.bus = r.bus,
                              !.value = IF r.value THEN 1 ELSE 0,
                              !.bad_before = bad_blocks, !.mem_before = mem]
    /\ UNCHANGED <<bad_blocks, mem, clean>>

DoEnableInternalEcc ==
    \E env \in {EnvOK, EnvBusy}, p1 \in P1Values :
        Direct /\ FeatureCall("enable_internal_ecc", enable_internal_ecc(env, p1), p1)

DoDisableInternalEcc ==
    \E env \in {EnvOK, EnvBusy}, p1 \in P1Values :
        Direct /\ FeatureCall("disable_internal_ecc", disable_internal_ecc(env, p1), p1)

NextEcc == DoEnableInternalEcc \/ DoDisableInternalEcc

SpecEcc == Init /\ [][NextEcc]_vars

----------------------------------------------------------------------------
(* program_nand of nand2_program.py: ECC on for block 0, off for the rest  *)

\* program_page_only: write_full_page up to max_retries times; the chip
\* answers each attempt alike.
RECURSIVE program_page_only(_, _, _, _, _)
program_page_only(acc, page_no, data, env, retries) ==
    IF retries = 0 THEN acc
    ELSE LET r == write_full_page(acc.bad, page_no, data, env)
             c == ChipRun(ChipIdle(acc.mem, r.loaded), r.bus, env)
             a == [bad |-> r.bad, mem |-> c.mem, bus |-> acc.bus \o r.bus,
                   ok |-> r.err = "none"]
         IN  IF a.ok THEN a ELSE program_page_only(a, page_no, data, env, retries - 1)

\* The record of a toggle call: a confirmed one starts the history anew.
Toggled(ecc, call, value) ==
    IF value THEN [enabled |-> call = "enable", confirmed |-> call, later |-> {}]
    ELSE [ecc EXCEPT !.later = @ \cup {call}]

\* What the chip answers to a toggle: the ready line and the P1 byte read back.
ToggleAnswers == {<<EnvOK, 8>>, <<EnvOK, 0>>, <<EnvBusy, 0>>}

\* Construction of the driver, whose disable_internal_ecc result is dropped,
\* then the first disable_internal_ecc of program_nand: when it fails
\* ecc_state_enabled is set to True.
ProgramNandStart ==
    \E a0 \in ToggleAnswers, a1 \in ToggleAnswers :
        LET r0 == disable_internal_ecc(a0[1], a0[2])
            r1 == disable_internal_ecc(a1[1], a1[2])
            e1 == Toggled(Toggled(NoEcc, "disable", r0.value), "disable", r1.value)
        IN  /\ last.op = "none"
            /\ prev' = last
            /\ last' = [NoCall EXCEPT !.op = "program_nand", !.bus = r0.bus \o r1.bus,
                                      !.ecc = [e1 EXCEPT !.enabled = ~r1.value],
                                      !.bad_before = bad_blocks, !.mem_before = mem]
            /\ UNCHANGED <<bad_blocks, mem, clean, loop, nOps, wire, at, wait, pins>>

\* One chunk file of the loop: the toggle the page needs, then the write.
\* last.err is "ToggleFailed" when the toggle raised, "WriteFailed" when
\* program_page_only raised.
ProgramNandFile ==
    \E page_no \in {PageAt(0, 0), PageAt(1, 0)}, a \in ToggleAnswers, env \in Envs :
        LET is_block_0 == page_no < PAGES_PER_BLOCK
            call   == IF is_block_0 /\ ~last.ecc.enabled THEN "enable"
                      ELSE IF ~is_block_0 /\ last.ecc.enabled THEN "disable"
                      ELSE "none"
            t      == IF call = "enable" THEN enable_internal_ecc(a[1], a[2])
                      ELSE disable_internal_ecc(a[1], a[2])
            raised == call # "none" /\ ~t.value
            w      == program_page_only([bad |-> bad_blocks, mem |-> mem, bus |-> <<>>,
                                         ok |-> FALSE],
                                        page_no, Fill(FULL_PAGE_SIZE, 85), env, MAX_RETRIES)
        IN  /\ last.op \in {"program_nand", "program_nand_file"}
            /\ Direct
            /\ prev' = last
            /\ bad_blocks' = IF raised THEN bad_blocks ELSE w.bad
            /\ mem' = IF raised THEN mem ELSE w.mem
            /\ last' = [NoCall EXCEPT
                           !.op = "program_nand_file", !.page = page_no,
                           !.bus = (IF call = "none" THEN <<>> ELSE t.bus)
                                       \o (IF raised THEN <<>> ELSE w.bus),
                           !.err = IF raised THEN "ToggleFailed"
                                   ELSE IF w.ok THEN "none" ELSE "WriteFailed",
                           !.ecc = IF call = "none" THEN last.ecc
                                   ELSE Toggled(last.ecc, call, t.value),
                           !.bad_before = bad_blocks, !.mem_before = mem]
            /\ clean' = IF raised THEN clean ELSE clean \ {BlockOf(page_no)}

NextProgram == ProgramNandStart \/ ProgramNandFile

SpecProgram == Init /\ [][NextProgram]_vars

----------------------------------------------------------------------------
(* verify_nand_sequential of nand3_verify.py: the device read back         *)

\* The driver class the script constructs (MT29F4G08ADADA) scans the factory
\* markers at start-up: the table the read-back starts from.
StartupScan(m, busy) == scan_bad_blocks(m, ScanOrder, busy).bad

\* The retry loop of one page: read_page up to MAX_RETRIES times, the chip
\* answering each attempt alike; the bytes stored for the page are those
\* read_page returned, or FFh throughout after the last failed attempt.
\* `cmds` counts the commands strobed for the page.
RECURSIVE ReadBackPage(_, _, _, _, _, _)
ReadBackPage(bad, m, page_no, env, attempts, bus) ==
    IF attempts = 0
        THEN [page |-> page_no, data |-> Fill(FULL_PAGE_SIZE, 255),
              cmds |-> Len(Commands(bus))]
    ELSE LET sent == read_page(bad, page_no, FULL_PAGE_SIZE, env, <<NoData>>).bus
             chip == ChipRun(ChipIdle(m, NoData), sent, env)
             r    == read_page(bad, page_no, FULL_PAGE_SIZE, env, chip.out \o <<NoData>>)
         IN  IF r.err = "none"
                THEN [page |-> page_no, data |-> r.ret, cmds |-> Len(Commands(bus \o r.bus))]
                ELSE ReadBackPage(bad, m, page_no, env, attempts - 1, bus \o r.bus)

\* The pages the loops over the blocks and over range(PAGES_PER_BLOCK) are
\* followed through.
ReadBackPages ==
    [i \in 1..(Len(ScanOrder) * Len(VerifyOffsets)) |->
        PageAt(ScanOrder[((i - 1) \div Len(VerifyOffsets)) + 1],
               VerifyOffsets[((i - 1) % Len(VerifyOffsets)) + 1])]

\* One run: last.report holds what was stored for each page, last.value is 1
\* when the chip answered the reads in time and without an ECC failure.
VerifyNandSequential ==
    \E busy \in SUBSET {ScanOrder[i] : i \in 1..Len(ScanOrder)}, env \in RetryEnvs :
        LET bad == StartupScan(mem, busy)
        IN  /\ last.op = "none"
            /\ bad_blocks' = bad
            /\ prev' = last
            /\ last' = [NoCall EXCEPT
                           !.op = "verify_nand_sequential",
                           !.value = IF env = EnvOK THEN 1 ELSE 0,
                           !.report = [i \in 1..Len(ReadBackPages) |->
                                          ReadBackPage(bad, mem, ReadBackPages[i], env,
                                                       MAX_RETRIES, <<>>)],
                           !.bad_before = bad_blocks, !.mem_before = mem]
            /\ UNCHANGED <<mem, clean, loop, nOps, wire, at, wait, pins>>

NextReadBack == VerifyNandSequential

SpecReadBack == InitScan /\ [][NextReadBack]_vars

----------------------------------------------------------------------------
(* program_nand of program_nand.py: a chunk written and read back          *)

\* One pass of write_page, read_page(page_no) with its default length, and the
\* comparison read_data != write_data of the two byte strings.
ChunkAttempt(bad, m, page_no, chunk, env) ==
    LET w    == write_page(bad, page_no, chunk, env)
        wc   == ChipRun(ChipIdle(m, w.loaded), w.bus, env)
        sent == read_page(w.bad, page_no, PAGE_SIZE, env, <<NoData>>).bus
        rc   == ChipRun(ChipIdle(wc.mem, NoData), sent, env)
        r    == read_page(w.bad, page_no, PAGE_SIZE, env, rc.out \o <<NoData>>)
    IN  [bad |-> w.bad, mem |-> wc.mem,
         written |-> w.err = "none",
         reads |-> IF w.err = "none" THEN 1 ELSE 0,
         read_data |-> IF w.err = "none" /\ r.err = "none" THEN r.ret ELSE NoData,
         success |-> w.err = "none" /\ r.err = "none" /\ r.ret = chunk]

\* The retry loop of one file: the pass is repeated until it succeeds, at most
\* once per retry here (the inner loop repeats it for TIMEOUT_SECONDS).
RECURSIVE ProgramChunkFrom(_, _, _, _, _)
ProgramChunkFrom(acc, page_no, chunk, env, retries) ==
    IF retries = 0 \/ acc.success THEN acc
    ELSE With(ChunkAttempt(acc.bad, acc.mem, page_no, chunk, env),
              LAMBDA a :
                  With([bad |-> a.bad, mem |-> a.mem, success |-> a.success,
                        writes |-> acc.writes + 1, reads |-> acc.reads + a.reads,
                        first |-> IF acc.writes = 0 THEN a ELSE acc.first],
                       LAMBDA next : ProgramChunkFrom(next, page_no, chunk, env, retries - 1)))

\* Chunk files of 1, 2, 2047, 2048 and 2112 bytes.
ChunkPayloads ==
    ArrayPayloads \cup {Fill(2, 85), Fill(PAGE_SIZE - 1, 85), Fill(PAGE_SIZE, 85)}

\* One file of the loop: last.value is 1 when the file is counted as
\* processed, last.arg the number of write_page calls, last.length the number
\* of read_page calls, last.ret what the first read_page returned.
ProgramNandChunk ==
    \E page_no \in Pages, chunk \in ChunkPayloads, env \in RetryEnvs :
        LET none == [bad |-> bad_blocks, mem |-> mem, success |-> FALSE, writes |-> 0,
                     reads |-> 0, first |-> [written |-> FALSE, read_data |-> NoData]]
            run  == ProgramChunkFrom(none, page_no, chunk, env, MAX_RETRIES)
        IN  /\ last.op = "none"
            /\ bad_blocks' = run.bad
            /\ mem' = run.mem
            /\ prev' = last
            /\ last' = [NoCall EXCEPT
                           !.op = "program_nand_chunk", !.page = page_no, !.data = chunk,
                           !.value = IF run.success THEN 1 ELSE 0,
                           !.arg = run.writes, !.length = run.reads,
                           !.err = IF run.first.written THEN "none" ELSE "WriteFailed",
                           !.ret = run.first.read_data,
                           !.bad_before = bad_blocks, !.mem_before = mem]
            /\ clean' = clean \ {BlockOf(page_no)}
            /\ UNCHANGED <<loop, nOps, wire, at, wait, pins>>

NextChunk == ProgramNandChunk

SpecChunk == Init /\ [][NextChunk]_vars

----------------------------------------------------------------------------
(* The write/erase-test scanner of scan_bad_blocks.py: its address cycles  *)

\* _write_full_address of the scanner's driver class: the block bits 7..6 are
\* or-ed into the low bits of the third cycle.
scanner_write_full_address(page_no, col_addr) ==
    LET page_in_block == page_no % PAGES_PER_BLOCK
        block_no      == page_no \div PAGES_PER_BLOCK
    IN  <<Addr(BitAnd(col_addr, 255)),
          Addr(BitAnd(ShiftRight(col_addr, 8), 15)),
          Addr(BitOr(BitAnd(ShiftRight(block_no, 6), 3), BitAnd(page_in_block, 63))),
          Addr(BitAnd(ShiftRight(block_no, 8), 255)),
          Addr(BitAnd(ShiftRight(block_no, 16), 3))>>

\* _write_row_address of the scanner's driver class.
scanner_write_row_address(page_no) ==
    LET page_in_block == page_no % PAGES_PER_BLOCK
        block_no      == page_no \div PAGES_PER_BLOCK
    IN  <<Addr(BitOr(BitAnd(ShiftRight(block_no, 6), 3), BitAnd(page_in_block, 63))),
          Addr(BitAnd(ShiftRight(block_no, 8), 255)),
          Addr(BitAnd(ShiftRight(block_no, 16), 255))>>

\* Blocks whose tests are compared: neighbours, both planes, both ends.
ScannerBlocks == {0, 1, 63, 64, 65, 255, 256, TOTAL_BLOCKS - 1}

\* The address cycles of the program test and of the erase test of the first
\* page of two blocks: last.bus for block_a, last.out for block_b.
ScannerAddresses ==
    \E block_a \in ScannerBlocks, block_b \in ScannerBlocks :
        /\ last.op = "none"
        /\ last' = [NoCall EXCEPT
                       !.op = "scanner_addresses",
                       !.page = block_a * PAGES_PER_BLOCK, !.page2 = block_b * PAGES_PER_BLOCK,
                       !.bus = scanner_write_full_address(block_a * PAGES_PER_BLOCK, 0)
                                  \o scanner_write_row_address(block_a * PAGES_PER_BLOCK),
                       !.out = scanner_write_full_address(block_b * PAGES_PER_BLOCK, 0)
                                  \o scanner_write_row_address(block_b * PAGES_PER_BLOCK)]
        /\ UNCHANGED <<bad_blocks, mem, prev, clean, loop, nOps, wire, at, wait, pins>>

NextScanner == ScannerAddresses

SpecScanner == Init /\ [][NextScanner]_vars

----------------------------------------------------------------------------
(* Construction of the driver: reset on power-on, then ECC off             *)

\* Number of RESET attempts of power_on_sequence: range(3)
RESET_ATTEMPTS == 3

\* What power_on_sequence leaves: the strobes, the levels wait_ready saw at
\* the end of each attempt made, and whether RuntimeError was raised.
PowerOutcome(bus, seen, raised) == [bus |-> bus, seen |-> seen, raised |-> raised]

\* Variant: the loop goes on after wait_ready has returned.
RECURSIVE power_on_sequence_NoReturn(_, _, _)
power_on_sequence_NoReturn(answers, attempt, acc) ==
    IF attempt > RESET_ATTEMPTS
        THEN [acc EXCEPT !.raised = \A i \in 1..Len(acc.seen) : ~acc.seen[i]]
    ELSE power_on_sequence_NoReturn(answers, attempt + 1,
             PowerOutcome(acc.bus \o <<Cmd(255), WaitReady>>,
                          Append(acc.seen, answers[attempt]), FALSE))

\* power_on_sequence from attempt `attempt` on: write_command(0xFF), the wait
\* for R/B# to fall, wait_ready; return when wait_ready returns, next attempt
\* when it raises, RuntimeError after the last.  answers[i] is whether
\* wait_ready of attempt i sees R/B# high.
RECURSIVE power_on_sequence(_, _, _)
power_on_sequence(answers, attempt, acc) ==
    IF attempt > RESET_ATTEMPTS THEN [acc EXCEPT !.raised = TRUE]
    ELSE LET sent == PowerOutcome(acc.bus \o <<Cmd(255), WaitReady>>,
                                  Append(acc.seen, answers[attempt]), FALSE)
         IN  IF answers[attempt] THEN sent
             ELSE power_on_sequence(answers, attempt + 1, sent)

\* The levels of R/B# the three attempts may meet.
ReadyAnswers == [1..RESET_ATTEMPTS -> BOOLEAN]

\* __init__: empty table, reset_pins, power_on_sequence, disable_internal_ecc
\* with its result dropped; an exception of power_on_sequence is re-raised
\* before disable_internal_ecc is reached.  last.report holds the levels
\* seen, last.value 1 when the object was constructed.
Construct(answers, env, p1) ==
    LET power == power_on_sequence(answers, 1, PowerOutcome(<<ResetPins>>, <<>>, FALSE))
        ecc   == disable_internal_ecc(env, p1)
    IN  /\ bad_blocks' = {}
        /\ prev' = last
        /\ last' = [NoCall EXCEPT
                       !.op = "__init__",
                       !.err = IF power.raised THEN "PowerOnFailed" ELSE "none",
                       !.bus = IF power.raised THEN power.bus ELSE power.bus \o ecc.bus,
                       !.report = power.seen,
                       !.value = IF power.raised THEN 0 ELSE 1,
                       !.bad_before = bad_blocks, !.mem_before = mem]
        /\ UNCHANGED <<mem, clean>>

DoConstruct ==
    \E answers \in ReadyAnswers, env \in {EnvOK, EnvBusy}, p1 \in {0, 8} :
        Direct /\ Construct(answers, env, p1)

NextPower == DoConstruct \/ DoMarkBadBlock(MarkBlocks)

SpecPower == Init /\ [][NextPower]_vars

----------------------------------------------------------------------------
(* Two threads calling the same driver instance                            *)

\* Each thread calls erase_block on a block of its own; the method takes no
\* lock, so the thread scheduler may switch between any two strobes.
CallerPage(c) == IF c = "A" THEN PageAt(1, 0) ELSE PageAt(2, 0)

CallerStrobes(c) == Strobes(erase_block(bad_blocks, CallerPage(c), EnvOK).bus)

\* Thread c puts its next byte on the bus.
CallerStrobe(c) ==
    /\ at[c] < Len(CallerStrobes(c))
    /\ wire' = Append(wire, [who |-> c, e |-> CallerStrobes(c)[at[c] + 1]])
    /\ at' = [at EXCEPT ![c] = @ + 1]
    /\ UNCHANGED <<bad_blocks, mem, last, prev, clean, loop, nOps, wait, pins>>

NextConc == \E c \in Callers : CallerStrobe(c)

SpecConc == Init /\ [][NextConc]_vars

----------------------------------------------------------------------------
(* Read-back verification (nand2_program.py, verify_pages_batch)           *)

VERIFY_MAX_RETRIES == 5
MISMATCH_CAP == 16

\* ECC_RANGES: 808h-80Fh, 818h-81Fh, 828h-82Fh, 838h-83Fh
is_ecc_offset(offset) ==
    \/ 2056 <= offset /\ offset <= 2063
    \/ 2072 <= offset /\ offset <= 2079
    \/ 2088 <= offset /\ offset <= 2095
    \/ 2104 <= offset /\ offset <= 2111

\* The written page holds 55h everywhere; the page read back holds 54h at the
\* offsets in `corrupted` (FFh everywhere when the read was uncorrectable).
WrittenByte(i) == 85
ReadByte(i, corrupted, all_ff) ==
    IF all_ff THEN 255 ELSE IF i \in corrupted THEN 84 ELSE 85

Mismatch(i, corrupted, all_ff) ==
    [offset |-> i, expected |-> WrittenByte(i), actual |-> ReadByte(i, corrupted, all_ff)]

\* The line "... (many mismatches)" appended when the list is cut.
MoreMarker == [offset |-> -1, expected |-> -1, actual |-> -1]

RECURSIVE Ascending(_, _)
Ascending(offsets, n) ==
    IF offsets = {} \/ n = 0 THEN <<>>
    ELSE LET i == CHOOSE x \in offsets : \A y \in offsets : x <= y
         IN  <<i>> \o Ascending(offsets \ {i}, n - 1)

\* Variant: the upper end of each ECC range compared like data.
CompareBytes_OpenRanges(compare_len, corrupted, all_ff) ==
    LET ecc(i) == \/ 2056 <= i /\ i < 2063
                  \/ 2072 <= i /\ i < 2079
                  \/ 2088 <= i /\ i < 2095
                  \/ 2104 <= i /\ i < 2111
        found == {i \in 0..(compare_len - 1) :
                    ~ecc(i) /\ WrittenByte(i) # ReadByte(i, corrupted, all_ff)}
        listed == Ascending(found, MISMATCH_CAP)
        lines == [k \in 1..Len(listed) |-> Mismatch(listed[k], corrupted, all_ff)]
    IN  IF Cardinality(found) >= MISMATCH_CAP THEN Append(lines, MoreMarker) ELSE lines

\* The comparison loop: the mismatch lines collected, in offset order; the
\* loop stops, with a marker line, once 16 lines are collected.
CompareBytes(compare_len, corrupted, all_ff) ==
    LET found == {i \in 0..(compare_len - 1) :
                    ~is_ecc_offset(i) /\ WrittenByte(i) # ReadByte(i, corrupted, all_ff)}
        listed == Ascending(found, MISMATCH_CAP)
        lines == [k \in 1..Len(listed) |-> Mismatch(listed[k], corrupted, all_ff)]
    IN  IF Cardinality(found) >= MISMATCH_CAP THEN Append(lines, MoreMarker) ELSE lines

\* Stored pages: intact, one byte off at offset 100, bytes off in the ECC
\* ranges, in the main and the spare area, and 17 bytes off.
Corruptions == {{}, {100}, {2056}, {100, 2063}, {2047, 2048}, 0..16}
VerifyLengths == {PAGE_SIZE, FULL_PAGE_SIZE}

\* verify_pages_batch for one page of `length` bytes of 55h.  Every attempt
\* reads the same stored page; last.value counts the attempts, last.diff holds
\* the offsets at which the page read differs from the page written.
VerifyPage(page_no, length, corrupted, env) ==
    LET r == read_page(bad_blocks, page_no, length, env, <<Fill(length, 85)>>)
        all_ff == r.err = "none" /\ ~(\E i \in 1..Len(r.bus) : r.bus[i].k = "dout")
        lines == IF r.err = "none" THEN CompareBytes(length, corrupted, all_ff) ELSE <<>>
        failed == r.err # "none" \/ lines # <<>>
    IN  /\ prev' = last
        /\ last' = [NoCall EXCEPT
                      !.op = "verify_pages_batch", !.page = page_no, !.length = length,
                      !.data = Fill(length, 85), !.bus = r.bus,
                      !.err = IF r.err # "none" THEN r.err
                              ELSE IF lines # <<>> THEN "VerificationMismatch" ELSE "none",
                      !.value = IF failed THEN VERIFY_MAX_RETRIES ELSE 1,
                      !.diff = IF r.err # "none" THEN {}
                               ELSE IF all_ff THEN 0..(length - 1)
                               ELSE {i \in corrupted : i < length},
                      !.report = lines,
                      !.bad_before = bad_blocks, !.mem_before = mem]
        /\ UNCHANGED <<bad_blocks, mem, clean>>

DoVerifyPage ==
    \E n \in VerifyLengths, corrupted \in Corruptions, env \in RetryEnvs :
        Direct /\ VerifyPage(PageAt(1, 0), n, corrupted, env)

NextVerify == DoVerifyPage \/ DoMarkBadBlock({1})

SpecVerify == Init /\ [][NextVerify]_vars

----------------------------------------------------------------------------
(* The GPIO calls of the public methods, one call at a time                *)

PinsOnly == UNCHANGED <<bad_blocks, mem, last, prev, clean, loop, nOps, wire, at, wait>>

\* A public method is called.
PinsCall ==
    /\ pins.prog = <<>>
    /\ \E op \in PinOps, env \in RetryEnvs :
          pins' = [pins EXCEPT !.op = op, !.prog = PinProgram(op, env), !.ev = PollReady,
                               !.was = HIGH, !.driven = 0, !.taken = 0]
    /\ PinsOnly

\* The running method makes its next GPIO call.
PinsStep ==
    /\ pins.prog # <<>>
    /\ pins' = [PinStep(pins, Head(pins.prog)) EXCEPT !.prog = Tail(pins.prog)]
    /\ PinsOnly

NextPins == PinsCall \/ PinsStep

SpecPins == Init /\ [][NextPins]_vars

----------------------------------------------------------------------------
(* Ready/busy polling (wait_ready and the wait of erase_block_two_plane)   *)

\* Sleeps of the inner polling loop that fit into its 20 ms limit.
RoundTicks == 2
max_retries == 10

\* One pass of the inner loop `while GPIO.input(RB) == LOW` with sample s.
WaitPollStep(w, s) ==
    LET seen == [w EXCEPT !.sample = s, !.seen_high = w.seen_high \/ s = HIGH]
    IN  IF s = LOW /\ w.elapsed < RoundTicks
        THEN [seen EXCEPT !.elapsed = w.elapsed + 1]
        ELSE [seen EXCEPT !.pc = "check"]

\* Variant: the round returns without looking at R/B# again.
WaitCheckStep_NoSample(w, s) ==
    [w EXCEPT !.sample = s, !.seen_high = w.seen_high \/ s = HIGH,
              !.pc = IF w.nested THEN "raised" ELSE "returned",
              !.err = IF w.nested THEN "EraseTimeout" ELSE "none"]

\* `if GPIO.input(RB) == HIGH: return`, else the next round or the timeout.
\* Inside erase_block_two_plane the return is followed by the erase timeout.
WaitCheckStep(w, s) ==
    LET seen == [w EXCEPT !.sample = s, !.seen_high = w.seen_high \/ s = HIGH]
    IN  IF s = HIGH
        THEN [seen EXCEPT !.pc = IF w.nested THEN "raised" ELSE "returned",
                          !.err = IF w.nested THEN "EraseTimeout" ELSE "none"]
        ELSE IF w.retry_count + 1 < max_retries
        THEN [seen EXCEPT !.retry_count = w.retry_count + 1, !.elapsed = 0, !.pc = "poll"]
        ELSE [seen EXCEPT !.retry_count = w.retry_count + 1, !.pc = "raised",
                          !.err = "Timeout"]

\* One pass of the wait loop of erase_block_two_plane: past the limit it
\* resets the chip and calls wait_ready before raising.
TwoPlanePollStep(w, s) ==
    LET seen == [w EXCEPT !.sample = s, !.seen_high = w.seen_high \/ s = HIGH]
    IN  IF s = HIGH THEN [seen EXCEPT !.pc = "returned"]
        ELSE IF w.elapsed < RoundTicks THEN [seen EXCEPT !.elapsed = w.elapsed + 1]
        ELSE [seen EXCEPT !.nested = TRUE, !.retry_count = 0, !.elapsed = 0, !.pc = "poll"]

WaitOnly == UNCHANGED <<bad_blocks, mem, last, prev, clean, loop, nOps, wire, at, pins>>

WaitReadyStart ==
    /\ wait.pc = "idle"
    /\ wait' = [NoWait EXCEPT !.kind = "wait_ready", !.pc = "poll"]
    /\ WaitOnly

TwoPlaneWaitStart ==
    /\ wait.pc = "idle"
    /\ wait' = [NoWait EXCEPT !.kind = "erase_block_two_plane", !.pc = "tp_poll"]
    /\ WaitOnly

WaitPoll ==
    /\ wait.pc = "poll"
    /\ \E s \in {LOW, HIGH} : wait' = WaitPollStep(wait, s)
    /\ WaitOnly

WaitCheck ==
    /\ wait.pc = "check"
    /\ \E s \in {LOW, HIGH} : wait' = WaitCheckStep(wait, s)
    /\ WaitOnly

TwoPlanePoll ==
    /\ wait.pc = "tp_poll"
    /\ \E s \in {LOW, HIGH} : wait' = TwoPlanePollStep(wait, s)
    /\ WaitOnly

\* The caller takes the result; the next wait may begin.
WaitDone ==
    /\ wait.pc \in {"returned", "raised"}
    /\ wait' = NoWait
    /\ WaitOnly

NextWait ==
    \/ WaitReadyStart
    \/ TwoPlaneWaitStart
    \/ WaitPoll
    \/ WaitCheck
    \/ TwoPlanePoll
    \/ WaitDone

\* The polling loops are straight-line code of one thread: they keep running.
SpecWait == Init /\ [][NextWait]_vars /\ WF_vars(NextWait)

----------------------------------------------------------------------------
Spec == Init /\ [][Next]_vars

SpecArray == Init /\ [][NextArray]_vars

SpecRetry == Init /\ [][NextRetry]_vars

SpecCodec == InitCodec /\ [][NextCodec]_vars

----------------------------------------------------------------------------
(* Properties                                                              *)

ProgramOps == {"write_page", "write_full_page"}
TwoPlaneOps == {"erase_block_two_plane", "read_page_two_plane"}

InRange(page_no) == page_no \in 0..(TOTAL_PAGES - 1)

\* The last call was an erase or a program addressed to a page of a block that
\* was in the bad-block table when the call was made.
TargetsBadBlock ==
    /\ last.op \in {"erase_block"} \cup ProgramOps
    /\ InRange(last.page)
    /\ (last.page \div PAGES_PER_BLOCK) \in last.bad_before

SizeLimit(op) == IF op = "write_page" THEN PAGE_SIZE ELSE PAGE_SIZE + SPARE_SIZE

\* C1 (as amended): after mark_bad_block(b), is_bad_block(b) is true, and an
\* erase_block, write_page or write_full_page addressed to a page of a block in
\* the bad-block table fails without strobing any command, address or data
\* byte; the error is the bad-block error whenever the payload is within the
\* size limit of the operation (an oversized payload is rejected first, with
\* the payload-too-large error).
C1_BadBlockRejected ==
    /\ last.op = "mark_bad_block" =>
            is_bad_block(bad_blocks, last.page \div PAGES_PER_BLOCK)
    /\ TargetsBadBlock =>
            /\ last.err # "none"
            /\ Strobes(last.bus) = <<>>
            /\ last.data.len <= SizeLimit(last.op) => last.err = "BadBlockAccess"

\* C1 (as stated): ... every such call fails with the bad-block error without
\* strobing any command, address or data byte.
C1_AlwaysBadBlockError ==
    /\ last.op = "mark_bad_block" =>
            is_bad_block(bad_blocks, last.page \div PAGES_PER_BLOCK)
    /\ TargetsBadBlock =>
            /\ last.err = "BadBlockAccess"
            /\ Strobes(last.bus) = <<>>

\* mark_bad_block(b) directly followed by a program of a page of b, rejected.
C1_Witness ==
    /\ prev.op = "mark_bad_block"
    /\ last.op \in ProgramOps
    /\ last.page \div PAGES_PER_BLOCK = prev.page \div PAGES_PER_BLOCK
    /\ last.err = "BadBlockAccess"
    /\ last.bus = <<ResetPins>>

\* C2: no erase command sequence (60h ...) is ever issued for a block that is
\* in the bad-block table, by erase_block or by erase_block_two_plane.
C2_NoEraseOfBadBlock ==
    (last.op \in {"erase_block", "erase_block_two_plane"} /\ HasCmd(last.bus, 96)) =>
        /\ (last.page \div PAGES_PER_BLOCK) \notin last.bad_before
        /\ last.op = "erase_block_two_plane" =>
                (last.page2 \div PAGES_PER_BLOCK) \notin last.bad_before

HasKind(trace, k) == \E i \in 1..Len(trace) : trace[i].k = k

\* C3: after erase_block succeeds on a valid non-bad block (the chip decoding
\* the address cycles it was sent), read_page of any page of that block with
\* length 2112 returns 2112 bytes, each 0xFF.
C3_ErasedBlockReadsFF ==
    (/\ last.op = "read_page"
     /\ last.err = "none"
     /\ last.length = PAGE_SIZE + SPARE_SIZE
     /\ (last.page \div PAGES_PER_BLOCK) \in clean) =>
        /\ last.ret.len = PAGE_SIZE + SPARE_SIZE
        /\ \A c \in ProbeCols : last.ret.at[c] = 255

\* A programmed block erased through its first page, then its last page
\* streamed out of the chip.
C3_Witness ==
    /\ prev.op = "erase_block"
    /\ prev.err = "none"
    /\ ~BlockErased(prev.mem_before, prev.page \div PAGES_PER_BLOCK)
    /\ last.op = "read_page"
    /\ last.err = "none"
    /\ last.page \div PAGES_PER_BLOCK = prev.page \div PAGES_PER_BLOCK
    /\ last.page # prev.page
    /\ last.length = PAGE_SIZE + SPARE_SIZE
    /\ HasKind(last.bus, "dout")
    /\ AllFF(last.ret)

\* The chip reported a failure (or never became ready) during the call.
ChipFaulted(call) ==
    \/ call.err \in {"OperationFailed", "Timeout"}
    \/ call.op = "read_page" /\ call.err = "none" /\ ~HasKind(call.bus, "dout")

\* C4: for a valid page of a non-bad erased block and a payload p of 1 to 2112
\* bytes, programming p (write_page or write_full_page) and then
\* read_page(page, len(p)) returns exactly p, the chip reporting no failure.
C4_ProgramReadRoundTrip ==
    (/\ prev.op \in ProgramOps
     /\ InRange(prev.page)
     /\ (prev.page \div PAGES_PER_BLOCK) \notin prev.bad_before
     /\ BlockErased(prev.mem_before, prev.page \div PAGES_PER_BLOCK)
     /\ prev.data.len \in 1..(PAGE_SIZE + SPARE_SIZE)
     /\ last.op = "read_page"
     /\ last.page = prev.page
     /\ last.length = prev.data.len
     /\ ~ChipFaulted(prev)
     /\ ~ChipFaulted(last)) =>
        /\ prev.err = "none"
        /\ last.err = "none"
        /\ last.ret = prev.data

\* C5: when the chip reports FAIL for every erase of block 7, the retry loop
\* with 5 attempts ends with block 7 in the bad-block table and reports the
\* OperationFailed error of the final attempt.
C5_ExhaustionReportsOperationFailed ==
    (/\ loop.kind \in {"erase_blocks", "check_erase_blocks"}
     /\ loop.done
     /\ loop.max = MAX_RETRIES
     /\ loop.page \div PAGES_PER_BLOCK = 7
     /\ loop.all_fail
     /\ loop.first = "OperationFailed") =>
        /\ 7 \in bad_blocks
        /\ loop.error = "OperationFailed"

PreconditionErrors == {"InvalidAddress", "BadBlockAccess", "PayloadTooLarge"}

\* C6: when the first attempt of a retried operation fails on a precondition
\* (page out of range, bad block, oversized payload), the loop invokes the
\* operation exactly once and never sleeps.
C6_PreconditionFailureNotRetried ==
    (loop.kind # "none" /\ loop.first \in PreconditionErrors) =>
        /\ loop.calls = 1
        /\ loop.sleeps = 0

PlaneOf(page_no) == ((page_no \div PAGES_PER_BLOCK) \div 64) % 2

\* C7: erase_block_two_plane and read_page_two_plane reject, before any strobe,
\* every pair of pages whose blocks have the same plane bit (bit 6 of the block
\* number) or whose page offsets within the block differ.
C7_TwoPlanePairRejected ==
    (/\ last.op \in TwoPlaneOps
     /\ \/ PlaneOf(last.page) = PlaneOf(last.page2)
        \/ last.page % PAGES_PER_BLOCK # last.page2 % PAGES_PER_BLOCK) =>
        /\ last.err # "none"
        /\ Strobes(last.bus) = <<>>

\* Blocks 1 and 2 (same plane bit) handed to erase_block_two_plane.
C7_Witness ==
    /\ last.op = "erase_block_two_plane"
    /\ last.page \div PAGES_PER_BLOCK = 1
    /\ last.page2 \div PAGES_PER_BLOCK = 2
    /\ last.err = "SamePlane"
    /\ last.bus = <<ResetPins>>

\* The array after erase_block(page_no1); erase_block(page_no2) on a chip that
\* completes both.
SequentialErase(m, page_no1, page_no2) ==
    LET ok == [ready |-> TRUE, status |-> 224, float |-> 0, float2 |-> 0]
        first == ChipRun(ChipIdle(m, NoData), erase_block({}, page_no1, ok).bus, ok)
    IN  ChipRun(ChipIdle(first.mem, NoData), erase_block({}, page_no2, ok).bus, ok).mem

\* C8: a successful erase_block_two_plane(b1, b2) leaves the array as
\* erase_block(b1); erase_block(b2) does: exactly the pages of b1 and b2 read
\* 0xFF and every other page is unchanged.
C8_TwoPlaneEraseIsSequential ==
    (/\ last.op = "erase_block_two_plane"
     /\ last.err = "none") =>
        /\ mem = SequentialErase(last.mem_before, last.page, last.page2)
        /\ \A p \in DOMAIN mem :
              mem[p] = IF (p \div PAGES_PER_BLOCK) \in
                              {last.page \div PAGES_PER_BLOCK,
                               last.page2 \div PAGES_PER_BLOCK}
                          THEN [c \in ProbeCols |-> 255]
                          ELSE last.mem_before[p]

\* A two-plane erase of two programmed blocks, a third block staying programmed.
C8_Witness ==
    /\ last.op = "erase_block_two_plane"
    /\ last.err = "none"
    /\ last.mem_before = UsedChip
    /\ BlockErased(mem, last.page \div PAGES_PER_BLOCK)
    /\ BlockErased(mem, last.page2 \div PAGES_PER_BLOCK)
    /\ \E p \in DOMAIN mem : mem[p] # ErasedPage

\* C9: the three row address bytes of _write_row_address (cycles 3 to 5 of
\* _write_full_address) determine the block and the page within the block:
\* decoding them gives back (page_no div 64, page_no mod 64).
C9_RowAddressRoundTrip ==
    last.op \in {"_write_row_address", "_write_full_address"} =>
        LET n == Len(last.bus)
            c3 == last.bus[n - 2].b
            c4 == last.bus[n - 1].b
            c5 == last.bus[n].b
        IN  /\ {c3, c4, c5} \subseteq 0..255
            /\ (c3 \div 64) + 4 * c4 + 1024 * c5 = last.page \div PAGES_PER_BLOCK
            /\ c3 % 64 = last.page % PAGES_PER_BLOCK

\* Page 4159 is block 64, page 63: row bytes 3Fh, 10h, 00h.
C9_Witness ==
    /\ last.op = "_write_row_address"
    /\ last.page = 4159
    /\ last.bus = <<Addr(63), Addr(16), Addr(0)>>

\* C10: a program operation given more than 2112 bytes fails with the
\* payload-too-large error before any control or data line is changed, and
\* leaves the bad-block table (and the array) as they were.
C10_OversizedPayloadRejected ==
    (last.op \in ProgramOps /\ last.data.len > PAGE_SIZE + SPARE_SIZE) =>
        /\ last.err = "PayloadTooLarge"
        /\ last.bus = <<>>
        /\ bad_blocks = last.bad_before
        /\ mem = last.mem_before

\* write_full_page given 2113 bytes for a page of a block marked bad.
C10_Witness ==
    /\ last.op = "write_full_page"
    /\ last.data.len = PAGE_SIZE + SPARE_SIZE + 1
    /\ bad_blocks # {}
    /\ last.err = "PayloadTooLarge"
    /\ last.bus = <<>>

\* The status check of the last read_page found the FAIL bit set: the status
\* byte was read and the method went on to no data byte.
ReadUncorrectable ==
    /\ last.op = "read_page"
    /\ HasKind(last.bus, "status")
    /\ ~HasKind(last.bus, "dout")

\* C11: when the status check after the read confirm reports an uncorrectable
\* condition, read_page reports the operation as failed (the caller can tell
\* it from a successful read), its payload is `length` bytes of 0xFF and no
\* data byte is streamed from the chip.
C11_UncorrectableReadReported ==
    ReadUncorrectable =>
        /\ last.err # "none"
        /\ last.ret = Fill(last.length, 255)

CountKind(trace, k) == Cardinality({i \in 1..Len(trace) : trace[i].k = k})

\* The ready line rose for every block of the last scan.
ScanUndisturbed ==
    /\ last.op = "scan_bad_blocks"
    /\ ~\E i \in 1..(Len(last.bus) - 1) :
            last.bus[i] = WaitReady /\ last.bus[i + 1] = ResetPins

\* C12: scan_bad_blocks reads, for every block, the first spare byte (column
\* 2048) of the block's first page and of its last page, and after the scan a
\* block is in the bad-block table iff either byte is not 0xFF.
C12_ScanFirstAndLastPage ==
    ScanUndisturbed =>
        /\ CountKind(last.bus, "dout") = 2 * Len(ScanOrder)
        /\ \A i \in 1..Len(ScanOrder) :
              (ScanOrder[i] \in bad_blocks) <=>
                  \E p \in DOMAIN last.mem_before :
                      /\ p \in {ScanOrder[i] * PAGES_PER_BLOCK,
                                ScanOrder[i] * PAGES_PER_BLOCK + PAGES_PER_BLOCK - 1}
                      /\ last.mem_before[p][PAGE_SIZE] # 255

\* C13: find_good_block(start) returns the smallest block b with
\* start <= b < TOTAL_BLOCKS that is not in the bad-block table, raises the
\* not-found error exactly when every block of [start, TOTAL_BLOCKS) is in the
\* table, and never modifies the table.
C13_FindGoodBlock ==
    last.op = "find_good_block" =>
        /\ bad_blocks = last.bad_before
        /\ last.err \in {"none", "NotFound"}
        /\ last.err = "NotFound" <=>
                \A b \in last.arg..(TOTAL_BLOCKS - 1) : b \in last.bad_before
        /\ last.err = "none" =>
                /\ last.value \in last.arg..(TOTAL_BLOCKS - 1)
                /\ last.value \notin last.bad_before
                /\ \A b \in last.arg..(last.value - 1) : b \in last.bad_before

\* The search starts on a block of the table and returns the next one.
C13_Witness ==
    /\ last.op = "find_good_block"
    /\ last.arg \in last.bad_before
    /\ last.err = "none"
    /\ last.value = last.arg + 1

\* The last call read the feature parameters back (EEh and RE#-strobed bytes).
ReadBack == HasCmd(last.bus, 238) /\ HasKind(last.bus, "dout")

C15_StrobesNotInterleaved ==
    \A i, k \in 1..Len(wire) :
        (i < k /\ wire[i].who = wire[k].who) =>
            \A j \in i..k : wire[j].who = wire[i].who

\* The offsets of the ECC bytes, 808h-80Fh, 818h-81Fh, 828h-82Fh, 838h-83Fh.
EccOffsets == (2056..2063) \cup (2072..2079) \cup (2088..2095) \cup (2104..2111)

\* The last call was a verification whose read returned a page.
Verified == last.op = "verify_pages_batch" /\ last.err \in {"none", "VerificationMismatch"}

ReportedOffsets == {last.report[k].offset : k \in 1..Len(last.report)} \ {-1}

\* C16 (as amended): verify_pages_batch reports a mismatch iff the read-back
\* differs from the written data at some offset below len(data) outside the
\* ECC byte ranges; the report carries the differing offsets outside those
\* ranges with the expected and the actual byte, in order, the first 16 of
\* them when there are more; a single corrupted byte at offset 100 gives
\* exactly one discrepancy (offset 100, expected 55h, actual 54h).
C16_MismatchOutsideEcc ==
    Verified =>
        LET differing == last.diff \ EccOffsets
        IN  /\ last.err = "VerificationMismatch" <=> differing # {}
            /\ ReportedOffsets \subseteq differing
            /\ Cardinality(differing) < MISMATCH_CAP => ReportedOffsets = differing
            /\ Cardinality(differing) >= MISMATCH_CAP =>
                    /\ Cardinality(ReportedOffsets) = MISMATCH_CAP
                    /\ \A i \in differing \ ReportedOffsets :
                          \A j \in ReportedOffsets : j < i
            /\ \A k \in 1..Len(last.report) :
                    last.report[k].offset # -1 =>
                        /\ last.report[k].expected = 85
                        /\ last.report[k].actual # 85
            /\ last.diff = {100} =>
                    last.report = <<[offset |-> 100, expected |-> 85, actual |-> 84]>>

\* C16 (as stated): a mismatch is reported iff the read-back differs at some
\* offset below len(data), and the report carries each differing offset.
C16_MismatchAnywhere ==
    Verified =>
        /\ last.err = "VerificationMismatch" <=> last.diff # {}
        /\ ReportedOffsets = last.diff

\* The stored byte at offset 100 reads 54h.
C16_Witness ==
    /\ last.op = "verify_pages_batch"
    /\ last.diff = {100}
    /\ last.err = "VerificationMismatch"
    /\ last.report = <<[offset |-> 100, expected |-> 85, actual |-> 84]>>

WaitSafe ==
    /\ wait.pc = "returned" => wait.sample = HIGH
    /\ (wait.pc \in {"returned", "raised"} /\ ~wait.seen_high) =>
            /\ wait.pc = "raised"
            /\ wait.err = "Timeout"
            /\ wait.retry_count = max_retries
    /\ wait.retry_count <= max_retries
    /\ wait.elapsed <= RoundTicks

\* C17: wait_ready and the wait of erase_block_two_plane return normally only
\* after a sample of R/B# read high; when every sample reads low they end with
\* a timeout error after at most max_retries bounded polling rounds; a wait
\* that has begun always ends.
C17_WaitEndsReadyOrTimeout ==
    /\ []WaitSafe
    /\ (wait.pc # "idle") ~> (wait.pc \in {"returned", "raised"})

\* R/B# stayed low through the two-plane wait and the wait_ready inside it.
C17_Witness ==
    /\ wait.kind = "erase_block_two_plane"
    /\ wait.nested
    /\ wait.pc = "raised"
    /\ ~wait.seen_high
    /\ wait.retry_count = max_retries

\* The last call was made by the retry loop.
LoopCalled == loop.kind # "none" /\ loop.calls > 0 /\ last.op # "mark_bad_block"

C19_MarkOnlyAfterLastRetry ==
    (LoopCalled /\ ~loop.done /\ last.err = "OperationFailed") =>
        bad_blocks = last.bad_before

\* The address bytes strobed by a call, in order.
AddressCycles(bus) == SelectSeq(bus, LAMBDA e : e.k = "addr")

PlaneSelectBits(cycle) == cycle \div 64

\* C20: for every pair of pages accepted by the two-plane check (blocks that
\* differ in bit 6, equal page offsets), the first row-address cycles strobed
\* for the two operands of erase_block_two_plane differ in their top two bits.
C20_OperandsOnDifferentPlanes ==
    (/\ last.op = "erase_block_two_plane"
     /\ InRange(last.page) /\ InRange(last.page2)
     /\ PlaneOf(last.page) # PlaneOf(last.page2)
     /\ last.page % PAGES_PER_BLOCK = last.page2 % PAGES_PER_BLOCK) =>
        LET cycles == AddressCycles(last.bus)
        IN  /\ Len(cycles) = 6
            /\ PlaneSelectBits(cycles[1].b) # PlaneSelectBits(cycles[4].b)

\* The three row-address cycles of a page: the page offset with block bits
\* 1..0 above it, block bits 9..2, block bits 11..10.
RowCyclesOf(page_no) ==
    LET block == page_no \div PAGES_PER_BLOCK
    IN  <<Addr((page_no % PAGES_PER_BLOCK) + 64 * (block % 4)),
          Addr((block \div 4) % 256),
          Addr(block \div 1024)>>

\* The last call addressed a valid page of a block that was not marked bad.
OnGoodBlock ==
    /\ InRange(last.page)
    /\ (last.page \div PAGES_PER_BLOCK) \notin last.bad_before

\* C21: erase_block on a valid, non-bad block strobes 60h, the three row-address
\* cycles and D0h, in this order and with nothing in between, then waits for
\* ready, then reads the status register (70h and one byte), and returns
\* normally only if bit 0 of that byte is clear.
C21_EraseSequence ==
    (last.op = "erase_block" /\ OnGoodBlock) =>
        LET sent == <<Cmd(96)>> \o RowCyclesOf(last.page) \o <<Cmd(208), WaitReady>>
        IN  /\ Len(last.bus) >= Len(sent)
            /\ SubSeq(last.bus, 1, Len(sent)) = sent
            /\ last.err = "none" =>
                  /\ last.bus = sent \o <<Cmd(112), StatusOut, ResetPins>>
                  /\ last.status # Absent
                  /\ last.status % 2 = 0
            /\ (last.status # Absent /\ last.status % 2 = 1) => last.err = "OperationFailed"

\* Block 1 erased with status E0h, and once more with status E1h.
C21_Witness ==
    /\ prev.op = "erase_block" /\ prev.err = "none" /\ prev.status = 224
    /\ last.op = "erase_block" /\ OnGoodBlock /\ last.err = "OperationFailed"
    /\ last.status = 225
    /\ last.page = prev.page

\* The number of data bytes a program operation strobes: write_page fills the
\* main area, write_full_page the main and the spare area.
StrobedLength(op) == IF op = "write_page" THEN PAGE_SIZE ELSE PAGE_SIZE + SPARE_SIZE

\* The last call was a program on a valid page of a good block with a payload
\* the operation accepts.
ProgramOnGoodBlock ==
    /\ last.op \in {"write_page", "write_full_page"}
    /\ OnGoodBlock
    /\ last.data.len <= StrobedLength(last.op)

\* C22: a program operation on a valid, non-bad page strobes 80h, two column
\* cycles, three row cycles, the data bytes and 10h, in this order, then waits
\* for ready, then reads the status register, and returns normally only if bit
\* 0 of the status byte is clear.
C22_ProgramSequence ==
    ProgramOnGoodBlock =>
        LET sent == <<Cmd(128), Addr(0), Addr(0)>> \o RowCyclesOf(last.page)
                        \o <<DataIn(StrobedLength(last.op)), Cmd(16), WaitReady>>
        IN  /\ Len(last.bus) >= Len(sent)
            /\ SubSeq(last.bus, 1, Len(sent)) = sent
            /\ last.err = "none" =>
                  /\ last.bus = sent \o <<Cmd(112), StatusOut, ResetPins>>
                  /\ last.status # Absent
                  /\ last.status % 2 = 0
            /\ (last.status # Absent /\ last.status % 2 = 1) => last.err = "OperationFailed"

\* A full page programmed into page 0 of block 1 with status E0h.
C22_Witness ==
    /\ last.op = "write_full_page"
    /\ ProgramOnGoodBlock
    /\ last.page = PageAt(1, 0)
    /\ last.err = "none"
    /\ last.status = 224
    /\ last.bus[4] = Addr(64)

\* The bytes strobed are the bytes given, then FFh up to `size` bytes.
PaddedTo(size) ==
    /\ last.loaded.len = size
    /\ \A c \in ProbeCols :
          last.loaded.at[c] = IF c < last.data.len THEN last.data.at[c]
                              ELSE IF c < size THEN 255 ELSE Absent
    /\ \E i \in 1..Len(last.bus) :
          /\ last.bus[i] = DataIn(size)
          /\ last.bus[i - 1].k = "addr"
          /\ last.bus[i + 1] = Cmd(16)
    /\ Len(SelectSeq(last.bus, LAMBDA e : e.k = "din")) = 1

AcceptedPair ==
    /\ InRange(last.page) /\ InRange(last.page2)
    /\ PlaneOf(last.page) # PlaneOf(last.page2)
    /\ last.page % PAGES_PER_BLOCK = last.page2 % PAGES_PER_BLOCK

\* C24: erase_block_two_plane on an accepted pair strobes 60h, the row address
\* of block A, D1h, 60h, the row address of block B and D0h, in this order,
\* then waits for ready and reads the status register; it returns normally
\* only if bit 0 of the status byte is clear, and on that path strobes no
\* command besides these and the 70h of the status read.
C24_TwoPlaneEraseSequence ==
    (last.op = "erase_block_two_plane" /\ AcceptedPair) =>
        LET sent == <<Cmd(96)>> \o RowCyclesOf(last.page) \o <<Cmd(209)>>
                        \o <<Cmd(96)>> \o RowCyclesOf(last.page2) \o <<Cmd(208), WaitReady>>
        IN  /\ Len(last.bus) >= Len(sent)
            /\ SubSeq(last.bus, 1, Len(sent)) = sent
            /\ last.err = "none" =>
                  /\ last.bus = sent \o <<Cmd(112), StatusOut, ResetPins>>
                  /\ Commands(last.bus) = <<Cmd(96), Cmd(209), Cmd(96), Cmd(208), Cmd(112)>>
                  /\ last.status # Absent
                  /\ last.status % 2 = 0
            /\ (last.status # Absent /\ last.status % 2 = 1) => last.err = "OperationFailed"

\* Blocks 65 and 2 erased together with status E0h.
C24_Witness ==
    /\ last.op = "erase_block_two_plane"
    /\ AcceptedPair
    /\ last.page = PageAt(65, 0) /\ last.page2 = PageAt(2, 0)
    /\ last.err = "none"
    /\ last.status = 224
    /\ last.bus[2] = Addr(64) /\ last.bus[7] = Addr(128)

FullAddressOf(page_no) == <<Addr(0), Addr(0)>> \o RowCyclesOf(page_no)

\* A burst of n bytes taken from the data pins.
IsBurst(e, n) == e.k \in {"dout", "sample"} /\ e.b = n

\* C25: read_page_two_plane(pageA, pageB), after the common 30h confirm and
\* the ready wait, checks the status and reads the data of pageB, then strobes
\* the plane switch (06h, address of pageA, E0h), then checks the status and
\* reads the data of pageA, and returns the pair in argument order: the bytes
\* of the second burst first, those of the first burst second.
C25_TwoPlaneReadOrder ==
    (/\ last.op = "read_page_two_plane"
     /\ AcceptedPair
     /\ (last.page \div PAGES_PER_BLOCK) \notin last.bad_before
     /\ (last.page2 \div PAGES_PER_BLOCK) \notin last.bad_before
     /\ last.err = "none") =>
        LET sent == <<Cmd(0)>> \o FullAddressOf(last.page)
                        \o <<Cmd(0)>> \o FullAddressOf(last.page2) \o <<Cmd(48), WaitReady>>
            status == <<Cmd(112), StatusOut, Cmd(0)>>
            switch == <<Cmd(6)>> \o FullAddressOf(last.page) \o <<Cmd(224)>>
            n == Len(sent)
        IN  \/ /\ last.status % 2 = 0
               /\ Len(last.bus) = n + 16
               /\ SubSeq(last.bus, 1, n) = sent
               /\ SubSeq(last.bus, n + 1, n + 3) = status
               /\ IsBurst(last.bus[n + 4], last.length)
               /\ SubSeq(last.bus, n + 5, n + 11) = switch
               /\ SubSeq(last.bus, n + 12, n + 14) = status
               /\ IsBurst(last.bus[n + 15], last.length)
               /\ last.bus[n + 16] = ResetPins
               /\ Len(last.out) = 2
               /\ last.ret2 = last.out[1]
               /\ last.ret = last.out[2]
            \/ /\ last.status % 2 = 1
               /\ last.bus = sent \o status \o switch \o status \o <<ResetPins>>
               /\ last.ret = Fill(last.length, 255)
               /\ last.ret2 = Fill(last.length, 255)

\* Pages 0 of blocks 1 and 65 read together; the two bursts gave different bytes.
C25_Witness ==
    /\ last.op = "read_page_two_plane"
    /\ AcceptedPair
    /\ last.err = "none"
    /\ Len(last.out) = 2
    /\ last.out[1] # last.out[2]
    /\ last.ret = last.out[2]
    /\ last.ret2 = last.out[1]

\* C26: in every read path each byte taken from the chip is sampled while RE#
\* is low, with one RE# low pulse per byte.
C26_SampledUnderRePulse ==
    pins.ev.k = "sample" => pins.re = LOW /\ pins.taken = 1

\* C27 (as amended): every strobed byte write pulls WE# low, then drives the
\* eight data lines to the byte's value, then raises WE#: each WE# low pulse
\* carries exactly one byte, driven before the rising edge.
C27_ByteDrivenInsideWePulse ==
    /\ pins.ev.k = "drive" => pins.we = LOW /\ pins.driven = 1
    /\ (pins.ev = Pin("WE", HIGH) /\ pins.was = LOW) => pins.driven = 1

\* C27 (as stated): the data lines are driven before WE# falls and do not
\* change while WE# is low.
C27_DataStableWhileWeLow ==
    pins.ev.k = "drive" => pins.we = HIGH

\* The rising edge of WE# that ends the last data byte of a page program.
C27_Witness ==
    /\ pins.op = "write_full_page"
    /\ pins.ev = Pin("WE", HIGH) /\ pins.was = LOW
    /\ pins.driven = 1
    /\ pins.cle = LOW /\ pins.ale = LOW
    /\ Head(pins.prog) = Pin("CE", LOW)

LinesIdle ==
    /\ pins.ce = HIGH /\ pins.re = HIGH /\ pins.we = HIGH
    /\ pins.cle = LOW /\ pins.ale = LOW
    /\ pins.mode = "OUT"

\* C29: whenever a public driver operation returns or raises, CE#, RE# and WE#
\* are high, CLE and ALE are low and the data pins are configured as outputs.
C29_LinesIdleAfterCall ==
    pins.prog = <<>> => LinesIdle

\* read_page_two_plane has returned; its last burst left the data pins as
\* inputs until reset_pins.
C29_Witness ==
    /\ pins.op = "read_page_two_plane"
    /\ pins.prog = <<>>
    /\ pins.ev.k = "park"
    /\ pins.taken = BurstBytes + 1
    /\ LinesIdle

\* C30: a byte is driven onto the data lines only while the data pins are
\* configured as outputs, and the data lines are sampled only while they are
\* configured as inputs.
C30_DriveOutSampleIn ==
    /\ pins.ev.k \in {"drive", "park"} => pins.mode = "OUT"
    /\ pins.ev.k = "sample" => pins.mode = "IN"

\* The status byte sampled in check_read_status, and the 00h driven after it.
C30_Witness ==
    \/ /\ pins.op = "read_page" /\ pins.ev.k = "sample" /\ pins.mode = "IN"
       /\ pins.cle = LOW /\ pins.taken = 1 /\ Len(pins.prog) > Len(reset_pins) + 8
    \/ /\ pins.op = "read_page" /\ pins.ev = write_data(0)[1] /\ pins.mode = "OUT"
       /\ pins.taken = 1

----------------------------------------------------------------------------
(* Growth of the bad-block table                                           *)

\* The routines that empty the table before they fill it again.
Rebuilds == {"scan_bad_blocks", "erase_all_blocks_fast"}

\* C28 (as stated): after any operation or orchestration routine, every block
\* that was in the bad-block table before it is still in the table.
C28_TableOnlyGrows == last.op # "none" => last.bad_before \subseteq bad_blocks

\* C28 (amended): every operation that does not rebuild the table keeps each
\* block that was in it; erase_all_blocks_fast leaves exactly the blocks whose
\* erase failed in that run, whatever the table held before.
C28_GrowsBetweenRebuilds ==
    /\ last.op \notin Rebuilds \cup {"none"} => last.bad_before \subseteq bad_blocks
    /\ last.op = "erase_all_blocks_fast" => bad_blocks = last.diff

\* A failed erase adds its block to a table that already held another one.
C28_Witness ==
    /\ last.op = "erase_block"
    /\ last.err = "OperationFailed"
    /\ last.bad_before # {}
    /\ last.bad_before \subseteq bad_blocks
    /\ bad_blocks # last.bad_before

----------------------------------------------------------------------------
(* Erase of the whole device                                               *)

Occurrences(b, list) == Cardinality({i \in 1..Len(list) : list[i] = b})

\* The blocks of a list of pairs, in order.
BlocksOfPairs(pairs) ==
    [i \in 1..(2 * Len(pairs)) |-> pairs[(i + 1) \div 2][2 - (i % 2)]]

\* C31: in erase_all_blocks_fast each block of a pair whose two-plane erase
\* raised is handed to erase_block, in the order of the pair; at the end every
\* block is in exactly one of the success list and the failed list, once; the
\* bad-block table is the set of failed blocks; the routine returns True
\* exactly when the failed list is empty.
C31_EraseAllFallsBackAndPartitions ==
    last.op = "erase_all_blocks_fast" =>
        /\ last.lists.singles = BlocksOfPairs(last.lists.pairs)
        /\ \A b \in ErasedBlocks :
              Occurrences(b, last.lists.success) + Occurrences(b, last.lists.failed) = 1
        /\ bad_blocks = {last.lists.failed[i] : i \in 1..Len(last.lists.failed)}
        /\ (last.value = 1) <=> (last.lists.failed = <<>>)

\* The erase of pair (2, 66) timed out because of block 66: block 2 was then
\* erased alone, block 66 failed again and is the only block of the table.
C31_Witness ==
    /\ last.op = "erase_all_blocks_fast"
    /\ last.lists.pairs = <<<<2, 66>>>>
    /\ last.lists.success = <<1, 65, 2>>
    /\ last.lists.failed = <<66>>
    /\ last.bus[Len(last.bus) - 1] = WaitReady
    /\ bad_blocks = {66}
    /\ last.value = 0

----------------------------------------------------------------------------
(* Pairs of blocks                                                         *)

PlaneCount(list, plane) ==
    Cardinality({i \in 1..Len(list) : PlaneOf(PageAt(list[i], 0)) = plane})

\* C32: get_two_plane_pairs and get_two_plane_pairs_from_list hand back every
\* block of their input exactly as often as the input holds it, in one pair or
\* in the remaining list; the first block of every pair has bit 6 clear and
\* the second has it set; blocks remain only when the input holds different
\* numbers of blocks of the two planes.
C32_PairsPartitionInput ==
    last.op \in {"get_two_plane_pairs", "get_two_plane_pairs_from_list"} =>
        LET out == BlocksOfPairs(last.lists.pairs) \o last.lists.remaining
        IN  /\ Len(out) = Len(last.lists.input)
            /\ \A i \in 1..Len(last.lists.input) :
                  Occurrences(last.lists.input[i], out)
                      = Occurrences(last.lists.input[i], last.lists.input)
            /\ \A i \in 1..Len(last.lists.pairs) :
                  /\ (last.lists.pairs[i][1] \div 64) % 2 = 0
                  /\ (last.lists.pairs[i][2] \div 64) % 2 = 1
            /\ last.lists.remaining # <<>> =>
                  PlaneCount(last.lists.input, 0) # PlaneCount(last.lists.input, 1)

\* The list 192, 0, 192: one pair (0, 192) and the second 192 remaining.
C32_Witness ==
    /\ last.op = "get_two_plane_pairs_from_list"
    /\ last.lists.input = <<192, 0, 192>>
    /\ last.lists.pairs = <<<<0, 192>>>>
    /\ last.lists.remaining = <<192>>

\* A device of 130 blocks: 64 pairs, blocks 128 and 129 remaining.
C32_WitnessRange ==
    /\ last.op = "get_two_plane_pairs"
    /\ Len(last.lists.input) = 130
    /\ Len(last.lists.pairs) = 64
    /\ last.lists.pairs[2] = <<1, 65>>
    /\ last.lists.remaining = <<128, 129>>

----------------------------------------------------------------------------
(* Full verification after the erase                                       *)

\* No byte of the main area of a tracked page of the block differs from FFh.
MainAreaErased(m, block_no) ==
    \A p \in DOMAIN m :
        BlockOf(p) = block_no => \A c \in ProbeCols : c < PAGE_SIZE => m[p][c] = 255

\* C33: after erase_and_verify_blocks_two_plane with level "full", every block
\* of the success list that holds a byte other than FFh in the main area of
\* one of its pages is in the bad-block table.
C33_CorruptErasedBlocksMarked ==
    last.op = "erase_and_verify_blocks_two_plane" =>
        \A i \in 1..Len(last.lists.success) :
            ~MainAreaErased(mem, last.lists.success[i]) => last.lists.success[i] \in bad_blocks

----------------------------------------------------------------------------
(* ECC state while programming                                             *)

\* C34: in program_nand a page of block 0 is programmed only when the last
\* confirmed toggle is an enable and no disable was called since, a page of
\* another block only when the last confirmed toggle is a disable and no
\* enable was called since; a page whose toggle failed is not programmed.
C34_ProgrammedUnderConfirmedEccState ==
    last.op = "program_nand_file" =>
        /\ HasCmd(last.bus, 128) =>
              IF last.page < PAGES_PER_BLOCK
                 THEN last.ecc.confirmed = "enable" /\ "disable" \notin last.ecc.later
                 ELSE last.ecc.confirmed = "disable" /\ "enable" \notin last.ecc.later
        /\ last.err = "ToggleFailed" => ~HasCmd(last.bus, 128)

----------------------------------------------------------------------------
(* Read-back of blocks marked bad                                          *)

----------------------------------------------------------------------------
(* Chunks shorter than a page                                              *)

\* The first n bytes of a byte string.
Prefix(data, n) ==
    [len |-> n, at |-> [c \in ProbeCols |-> IF c < n THEN data.at[c] ELSE Absent]]

\* C36: a chunk that write_page accepted and whose bytes the first read-back
\* returned unchanged is counted as processed after one write_page and one
\* read_page, whatever its length.
C36_ChunkVerifiedAfterOnePass ==
    (/\ last.op = "program_nand_chunk"
     /\ last.err = "none"
     /\ last.ret.len >= last.data.len
     /\ Prefix(last.ret, last.data.len) = last.data) =>
        /\ last.value = 1
        /\ last.arg = 1
        /\ last.length = 1

----------------------------------------------------------------------------
(* Addresses of the write/erase-test scanner                               *)

\* C37: the address cycles the scanner strobes for the first page of a block
\* differ between any two distinct blocks.
C37_ScannerAddressesDistinct ==
    (last.op = "scanner_addresses" /\ last.page # last.page2) => last.bus # last.out

----------------------------------------------------------------------------
(* Construction                                                            *)

\* Number of strobes of command b in a trace.
RECURSIVE CountCmd(_, _)
CountCmd(trace, b) ==
    IF trace = <<>> THEN 0
    ELSE (IF Head(trace) = Cmd(b) THEN 1 ELSE 0) + CountCmd(Tail(trace), b)

\* C38: construction issues RESET (FFh) at most three times, once per level of
\* the ready line it looks at; when no attempt sees the line high it fails and
\* strobes neither SET FEATURES nor GET FEATURES; when an attempt sees it high
\* that attempt is the last one.
C38_ResetAtMostThrice ==
    last.op = "__init__" =>
        /\ CountCmd(last.bus, 255) <= 3
        /\ CountCmd(last.bus, 255) = Len(last.report)
        /\ (\A i \in 1..Len(last.report) : ~last.report[i]) =>
               /\ last.err # "none"
               /\ last.value = 0
               /\ ~HasCmd(last.bus, 239)
               /\ ~HasCmd(last.bus, 238)
        /\ \A i \in 1..Len(last.report) : last.report[i] => i = Len(last.report)

\* C38 witness: the second reset is answered, the third is not sent and the
\* features are set.
C38_Witness ==
    /\ last.op = "__init__"
    /\ last.report = <<FALSE, TRUE>>
    /\ CountCmd(last.bus, 255) = 2
    /\ HasCmd(last.bus, 239)

\* C38 witness of the failure: three resets, none answered.
C38_WitnessFailed ==
    /\ last.op = "__init__"
    /\ last.report = <<FALSE, FALSE, FALSE>>
    /\ last.err = "PowerOnFailed"

----------------------------------------------------------------------------
(* Errors of the two-plane erase                                           *)

\* C39: every failure of erase_block_two_plane, a page rejected by
\* validate_page included, reaches the caller as the wrapped RuntimeError that
\* names both blocks, the pins having been reset.
C39_TwoPlaneEraseFailuresWrapped ==
    (last.op = "erase_block_two_plane" /\ last.err # "none") =>
        /\ TwoPlaneEraseRaised(last.err) = "RuntimeError"
        /\ last.bus # <<>>
        /\ last.bus[Len(last.bus)] = ResetPins

====
